---- MODULE Spec2Model ----
(***************************************************************************)
(* whats-cli: the ingestion and reconciliation engine.                     *)
(*   - WhatsAppService: connection lifecycle with retry/backoff, the       *)
(*     debounced 'chats-changed' notification and the event handlers that  *)
(*     reconcile inbound events against the store;                         *)
(*   - the SQLite store: contacts, chats and messages tables and their     *)
(*     upsert statements.                                                  *)
(* Times are in milliseconds.  Timers are the pending setTimeout entries   *)
(* of the runtime: a timer fires when its remaining time is 0 and time     *)
(* does not advance past a timer that is due.                              *)
(***************************************************************************)
EXTENDS Integers, Sequences, FiniteSets, TLC

VARIABLES
  started,          \* connect() has been called by the owner of the service
  connState,        \* last value emitted on 'connection-state'
  retryCount,       \* WhatsAppService.retryCount
  sock,             \* WhatsAppService.sock: 0 (null) or a socket id
  sockPhase,        \* per socket id: "none" | "connecting" | "open"
  pendingConnects,  \* connect() calls suspended at their awaits
  timers,           \* pending setTimeout entries of the runtime, by timer id
  chatUpdateTimer,  \* WhatsAppService.chatUpdateTimer: 0 (null) or a timer id
  chats,            \* table chats: jid -> row
  contacts,         \* table contacts: jid -> row
  messages,         \* table messages: id -> row
  ops,              \* observer: number of store events handled so far
  burst,            \* observer's view of the notifier: calls/signals of the current burst
  closes,           \* observer: non-logout close events seen since the last open (or the start)
  reconnects,       \* observer: reconnects scheduled since the last open (or the start)
  lastEvent,        \* observer: the event handled by the last step
  probe,            \* inputs and results of a function applied on its own
  selectedJid       \* the UI hook's selected conversation (Empty: null)

connVars   == <<started, connState, retryCount, sock, sockPhase, pendingConnects, closes, reconnects>>
timerVars  == <<timers, chatUpdateTimer, burst>>
storeVars  == <<chats, contacts, messages>>
vars == <<started, connState, retryCount, sock, sockPhase, pendingConnects,
          timers, chatUpdateTimer, burst, chats, contacts, messages, ops,
          closes, reconnects, lastEvent, probe, selectedJid>>

\* ─── Bounds ──────────────────────────────────────────────────────────────
MaxTimers  == 4     \* timer ids of the runtime
MaxSocks   == 2     \* socket ids
TickStep   == 100   \* largest step by which time advances when no timer is nearer
MaxBurst   == 3     \* the observer counts calls and signals of a burst up to this
MaxCloses  == 7     \* the observer counts closes and scheduled reconnects up to this
MaxOps     == 3     \* store events of one run of the store specification
MaxDepth   == 4     \* wrapper envelopes around a payload

\* ─── Program constants ───────────────────────────────────────────────────
maxRetries    == 5
DebounceMs    == 300
BackoffStepMs == 1000
BackoffCapMs  == 10000

Min(a, b) == IF a < b THEN a ELSE b
Max(a, b) == IF a > b THEN a ELSE b
SetMin(S) == CHOOSE x \in S : \A y \in S : x <= y

\* ConnectionState enum
Disconnected == "disconnected"
Connecting   == "connecting"
QRReady      == "qr-ready"
Connected    == "connected"

\* ─── Runtime timers ──────────────────────────────────────────────────────
TimerIds == 1..MaxTimers
SockIds  == 1..MaxSocks
NoTimer  == [kind |-> "none", rem |-> 0]

Pending(ts)     == {i \in TimerIds : ts[i].kind # "none"}
FreeTimerIds(ts) == TimerIds \ Pending(ts)
Due(ts)         == {i \in Pending(ts) : ts[i].rem = 0}

\* setTimeout(fn, delay): a new pending entry; the handle is the smallest free id
NewTimerId(ts) == SetMin(FreeTimerIds(ts))
SetTimeout(ts, kind, delay) == [ts EXCEPT ![NewTimerId(ts)] = [kind |-> kind, rem |-> delay]]
\* clearTimeout(handle)
ClearTimeout(ts, h) == IF h = 0 THEN ts ELSE [ts EXCEPT ![h] = NoTimer]

\* ─── ChangeNotifier ──────────────────────────────────────────────────────
\* The notifier's state as one record: the runtime timers, the handle field and
\* the observer's burst record [calls, signals, since]: since = time elapsed
\* since the most recent call (saturating at DebounceMs), calls/signals = number
\* of notifyChatsChanged calls / 'chats-changed' signals of the current burst. A
\* call less than DebounceMs after the previous one continues the burst.
NotifierState == [timers |-> timers, chatUpdateTimer |-> chatUpdateTimer, burst |-> burst]

BurstAfterCall(b) ==
  IF b.calls > 0 /\ b.since < DebounceMs
    THEN [b EXCEPT !.calls = Min(b.calls + 1, MaxBurst), !.since = 0]
    ELSE [calls |-> 1, signals |-> 0, since |-> 0]

\* mutant: the pending timer is not cancelled (every call arms its own timer)
NotifyNoClear(n) ==
  [timers          |-> SetTimeout(n.timers, "notify", DebounceMs),
   chatUpdateTimer |-> NewTimerId(n.timers),
   burst           |-> BurstAfterCall(n.burst)]

\* mutant: throttle, the first call's timer is kept and later calls do not restart it
NotifyThrottle(n) ==
  IF n.chatUpdateTimer # 0
    THEN [n EXCEPT !.burst = BurstAfterCall(n.burst)]
    ELSE [timers          |-> SetTimeout(n.timers, "notify", DebounceMs),
          chatUpdateTimer |-> NewTimerId(n.timers),
          burst           |-> BurstAfterCall(n.burst)]

notifyChatsChanged(n) ==
  LET cleared == ClearTimeout(n.timers, n.chatUpdateTimer) IN
  [timers          |-> SetTimeout(cleared, "notify", DebounceMs),
   chatUpdateTimer |-> NewTimerId(cleared),
   burst           |-> BurstAfterCall(n.burst)]

RECURSIVE NotifyTimes(_, _)
NotifyTimes(n, k) == IF k = 0 THEN n ELSE NotifyTimes(notifyChatsChanged(n), k - 1)

\* the handler's k calls of notifyChatsChanged, as the step's effect on the notifier
Notified(k) ==
  LET n == NotifyTimes(NotifierState, k) IN
  /\ timers' = n.timers
  /\ chatUpdateTimer' = n.chatUpdateTimer
  /\ burst' = n.burst

CanNotify(k) == Cardinality(FreeTimerIds(timers)) >= k

\* the debounce timer's callback: emit('chats-changed'); chatUpdateTimer = null
NotifyTimerFire(i) ==
  /\ i \in Due(timers)
  /\ timers[i].kind = "notify"
  /\ timers' = [timers EXCEPT ![i] = NoTimer]
  /\ chatUpdateTimer' = 0
  /\ burst' = [burst EXCEPT !.signals = Min(burst.signals + 1, MaxBurst)]
  /\ lastEvent' = [kind |-> "chats-changed", since |-> burst.since]
  /\ UNCHANGED connVars
  /\ UNCHANGED <<chats, contacts, messages>>

\* time passes: up to the nearest deadline, never beyond it
Tick ==
  /\ Pending(timers) # {}
  /\ Due(timers) = {}
  /\ LET nearest == SetMin({timers[i].rem : i \in Pending(timers)}) IN
     \E d \in {Min(TickStep, nearest), nearest} :
       /\ timers' = [i \in TimerIds |->
                       IF timers[i].kind = "none" THEN NoTimer
                       ELSE [timers[i] EXCEPT !.rem = @ - d]]
       /\ burst' = [burst EXCEPT !.since = Min(@ + d, DebounceMs)]
       /\ lastEvent' = [kind |-> "tick", d |-> d]
  /\ UNCHANGED <<chatUpdateTimer>>
  /\ UNCHANGED connVars
  /\ UNCHANGED <<chats, contacts, messages>>

\* ─── Strings and identifiers ─────────────────────────────────────────────
\* A string is the tuple of its pieces: "" is <<>>, concatenation is \o. A JID
\* is <<user, "@", server>>.
Empty == <<>>
Str(x) == <<x>>

JA == <<"111", "@", "s.whatsapp.net">>
JG == <<"222", "@", "g.us">>
StatusBroadcast == <<"status", "@", "broadcast">>

\* jid.split('@')[0], prefixed by "+"; the jid itself when that part is empty
jidToPhoneNumber(jid) ==
  LET number == IF jid = Empty THEN "" ELSE jid[1]
  IN IF number # "" /\ number # "@" THEN <<"+", number>> ELSE jid

\* jid.endsWith('@g.us')
isGroupJid(jid) ==
  Len(jid) >= 2 /\ jid[Len(jid) - 1] = "@" /\ jid[Len(jid)] = "g.us"

\* a || b on strings
Or(a, b) == IF a # Empty THEN a ELSE b

\* ─── PersistenceStore ────────────────────────────────────────────────────
\* The store S = [chats, contacts, messages]: each table is a function from the
\* primary keys present to the rows.
Put(tbl, key, row) == [k \in DOMAIN tbl \cup {key} |-> IF k = key THEN row ELSE tbl[k]]

\* mutant: INSERT OR REPLACE instead of the per-field merge
upsertContactReplace(S, jid, name, notify) ==
  [S EXCEPT !.contacts = Put(S.contacts, jid, [name |-> name, notify |-> notify])]

upsertContact(S, jid, name, notify) ==
  LET tbl == S.contacts
      row == IF jid \in DOMAIN tbl
               THEN [name   |-> IF name # Empty THEN name ELSE tbl[jid].name,
                     notify |-> IF notify # Empty THEN notify ELSE tbl[jid].notify]
               ELSE [name |-> name, notify |-> notify]
  IN [S EXCEPT !.contacts = Put(tbl, jid, row)]

\* row.name || row.notify || null; null is returned as the empty string (every
\* caller uses the result under ||)
getContactName(S, jid) ==
  IF jid \notin DOMAIN S.contacts THEN Empty
  ELSE Or(S.contacts[jid].name, S.contacts[jid].notify)

\* Chat
Chat(jid, name, lastMessage, lastMessageAt, unreadCount) ==
  [jid |-> jid, name |-> name, lastMessage |-> lastMessage,
   lastMessageAt |-> lastMessageAt, unreadCount |-> unreadCount,
   isGroup |-> isGroupJid(jid)]

ChatRow(chat) ==
  [name |-> chat.name, last_message |-> chat.lastMessage,
   last_message_at |-> chat.lastMessageAt, unread_count |-> chat.unreadCount,
   is_group |-> IF chat.isGroup THEN 1 ELSE 0]

\* mutant: the incoming preview and timestamp always replace the stored ones
upsertChatLastWins(S, chat) ==
  LET tbl == S.chats
      old == tbl[chat.jid]
      row == IF chat.jid \in DOMAIN tbl
               THEN [name |-> IF chat.name # Empty THEN chat.name ELSE old.name,
                     last_message |-> chat.lastMessage,
                     last_message_at |-> chat.lastMessageAt,
                     unread_count |-> chat.unreadCount,
                     is_group |-> IF chat.isGroup THEN 1 ELSE 0]
               ELSE ChatRow(chat)
  IN [S EXCEPT !.chats = Put(tbl, chat.jid, row)]

\* mutant: the preview is replaced on >= instead of >
upsertChatGeq(S, chat) ==
  LET tbl == S.chats
      old == tbl[chat.jid]
      row == IF chat.jid \in DOMAIN tbl
               THEN [name |-> IF chat.name # Empty THEN chat.name ELSE old.name,
                     last_message |-> IF chat.lastMessageAt >= old.last_message_at
                                        THEN chat.lastMessage ELSE old.last_message,
                     last_message_at |-> Max(chat.lastMessageAt, old.last_message_at),
                     unread_count |-> chat.unreadCount,
                     is_group |-> IF chat.isGroup THEN 1 ELSE 0]
               ELSE ChatRow(chat)
  IN [S EXCEPT !.chats = Put(tbl, chat.jid, row)]

\* mutant: the name is overwritten by whatever comes in
upsertChatNameOverwrite(S, chat) ==
  LET tbl == S.chats
      old == tbl[chat.jid]
      row == IF chat.jid \in DOMAIN tbl
               THEN [name |-> chat.name,
                     last_message |-> IF chat.lastMessageAt > old.last_message_at
                                        THEN chat.lastMessage ELSE old.last_message,
                     last_message_at |-> Max(chat.lastMessageAt, old.last_message_at),
                     unread_count |-> chat.unreadCount,
                     is_group |-> IF chat.isGroup THEN 1 ELSE 0]
               ELSE ChatRow(chat)
  IN [S EXCEPT !.chats = Put(tbl, chat.jid, row)]

\* mutant: the preview is always replaced, the timestamp is the maximum
upsertChatPreviewOverwrite(S, chat) ==
  LET tbl == S.chats
      old == tbl[chat.jid]
      row == IF chat.jid \in DOMAIN tbl
               THEN [name |-> IF chat.name # Empty THEN chat.name ELSE old.name,
                     last_message |-> chat.lastMessage,
                     last_message_at |-> Max(chat.lastMessageAt, old.last_message_at),
                     unread_count |-> chat.unreadCount,
                     is_group |-> IF chat.isGroup THEN 1 ELSE 0]
               ELSE ChatRow(chat)
  IN [S EXCEPT !.chats = Put(tbl, chat.jid, row)]

\* INSERT ... ON CONFLICT(jid) DO UPDATE
upsertChat(S, chat) ==
  LET tbl == S.chats
      old == tbl[chat.jid]
      row == IF chat.jid \in DOMAIN tbl
               THEN [name |-> IF chat.name # Empty THEN chat.name ELSE old.name,
                     last_message |-> IF chat.lastMessageAt > old.last_message_at
                                        THEN chat.lastMessage ELSE old.last_message,
                     last_message_at |-> Max(chat.lastMessageAt, old.last_message_at),
                     unread_count |-> chat.unreadCount,
                     is_group |-> IF chat.isGroup THEN 1 ELSE 0]
               ELSE ChatRow(chat)
  IN [S EXCEPT !.chats = Put(tbl, chat.jid, row)]

\* getAllChats: every chat row joined with its contact, the name being
\* contact_name || row.name, ordered by last_message_at DESC. Rows with equal
\* timestamps come in an order the query does not fix, so the value is the set of
\* the lists the query may return.
ChatOf(S, jid) ==
  [jid |-> jid,
   name |-> Or(getContactName(S, jid), S.chats[jid].name),
   lastMessage |-> S.chats[jid].last_message,
   lastMessageAt |-> S.chats[jid].last_message_at,
   unreadCount |-> S.chats[jid].unread_count,
   isGroup |-> S.chats[jid].is_group = 1]

getAllChats(S) ==
  LET D == DOMAIN S.chats
      n == Cardinality(D)
      orders == {f \in [1..n -> D] :
                   /\ \A i, j \in 1..n : i # j => f[i] # f[j]
                   /\ \A i, j \in 1..n :
                        i < j => S.chats[f[i]].last_message_at >= S.chats[f[j]].last_message_at}
  IN {[i \in 1..n |-> ChatOf(S, f[i])] : f \in orders}

updateChatName(S, jid, name) ==
  IF jid \in DOMAIN S.chats THEN [S EXCEPT !.chats[jid].name = name] ELSE S

resetUnreadCount(S, jid) ==
  IF jid \in DOMAIN S.chats THEN [S EXCEPT !.chats[jid].unread_count = 0] ELSE S

incrementUnreadCount(S, jid) ==
  IF jid \in DOMAIN S.chats THEN [S EXCEPT !.chats[jid].unread_count = @ + 1] ELSE S

MessageRow(msg) ==
  [chat_jid |-> msg.chatJid, sender_jid |-> msg.senderJid, sender_name |-> msg.senderName,
   body |-> msg.body, timestamp |-> msg.timestamp,
   is_from_me |-> IF msg.isFromMe THEN 1 ELSE 0, status |-> msg.status, type |-> msg.type]

\* mutant: INSERT OR IGNORE, a stored row is kept as it is
upsertMessageIgnore(S, msg) ==
  IF msg.id \in DOMAIN S.messages THEN S
  ELSE [S EXCEPT !.messages = Put(S.messages, msg.id, MessageRow(msg))]

\* INSERT OR REPLACE, keyed by the message id
upsertMessage(S, msg) ==
  [S EXCEPT !.messages = Put(S.messages, msg.id, MessageRow(msg))]

\* the row mapping of getMessagesForChat
MessageOf(S, id) ==
  LET row == S.messages[id] IN
  [id |-> id, chatJid |-> row.chat_jid, senderJid |-> row.sender_jid,
   senderName |-> row.sender_name, body |-> row.body, timestamp |-> row.timestamp,
   isFromMe |-> row.is_from_me = 1, status |-> row.status, type |-> row.type]

\* the lists with the messages T in ascending timestamp order
Ascending(S, T) ==
  LET n == Cardinality(T)
      orders == {f \in [1..n -> T] :
                   /\ \A i, j \in 1..n : i # j => f[i] # f[j]
                   /\ \A i, j \in 1..n :
                        i < j => S.messages[f[i]].timestamp <= S.messages[f[j]].timestamp}
  IN {[i \in 1..n |-> MessageOf(S, f[i])] : f \in orders}

\* mutant: the inner query takes the oldest rows (ORDER BY timestamp ASC LIMIT ?)
getMessagesForChatOldest(S, chatJid, limit) ==
  LET D == {id \in DOMAIN S.messages : S.messages[id].chat_jid = chatJid}
      n == IF limit < 0 THEN Cardinality(D) ELSE Min(limit, Cardinality(D))
      inner == {T \in SUBSET D :
                  /\ Cardinality(T) = n
                  /\ \A i \in T : \A e \in D \ T :
                       S.messages[i].timestamp <= S.messages[e].timestamp}
  IN UNION {Ascending(S, T) : T \in inner}

\* getMessagesForChat: the inner query takes the first limit rows of the
\* conversation by timestamp DESC (a negative LIMIT takes all), the outer query
\* orders them by timestamp ASC. Rows with equal timestamps come in an order the
\* queries do not fix, so the value is the set of the lists that may be returned.
getMessagesForChat(S, chatJid, limit) ==
  LET D == {id \in DOMAIN S.messages : S.messages[id].chat_jid = chatJid}
      n == IF limit < 0 THEN Cardinality(D) ELSE Min(limit, Cardinality(D))
      inner == {T \in SUBSET D :
                  /\ Cardinality(T) = n
                  /\ \A i \in T : \A e \in D \ T :
                       S.messages[i].timestamp >= S.messages[e].timestamp}
  IN UNION {Ascending(S, T) : T \in inner}

\* ─── ContentExtractor ────────────────────────────────────────────────────
\* A WAMessageContent is a record holding the fields that are set; Null is the
\* null/undefined content. A wrapper field holds [message |-> inner content].
Null == [isNull |-> TRUE]
IsNull(c) == "isNull" \in DOMAIN c
Has(c, f) == f \in DOMAIN c
Result(body, type) == [body |-> body, type |-> type]

Wrappers == <<"ephemeralMessage", "viewOnceMessage", "viewOnceMessageV2",
              "viewOnceMessageV2Extension", "documentWithCaptionMessage", "editedMessage">>

\* mutant: the edited-message wrapper is not unwrapped
RECURSIVE FirstInnerNoEdited(_, _)
FirstInnerNoEdited(c, i) ==
  IF i > Len(Wrappers) - 1 THEN Null
  ELSE IF Has(c, Wrappers[i]) /\ ~IsNull(c[Wrappers[i]].message)
    THEN c[Wrappers[i]].message
  ELSE FirstInnerNoEdited(c, i + 1)

\* a?.message || b?.message || ...: the first wrapper field whose message is set
RECURSIVE FirstInner(_, _)
FirstInner(c, i) ==
  IF i > Len(Wrappers) THEN Null
  ELSE IF Has(c, Wrappers[i]) /\ ~IsNull(c[Wrappers[i]].message)
    THEN c[Wrappers[i]].message
  ELSE FirstInner(c, i + 1)

\* a record field read as a string: "" when the field is not set
Field(r, f) == IF Has(r, f) THEN r[f] ELSE Empty
\* a nested object: Null when the field is not set
Sub(r, f) == IF Has(r, f) THEN r[f] ELSE Null

\* extractContent: the placeholders are the source's texts without their emoji

RECURSIVE extractContent(_)
extractContent(content) ==
  IF IsNull(content) THEN Result(Empty, "unknown")
  ELSE IF ~IsNull(FirstInner(content, 1)) THEN extractContent(FirstInner(content, 1))
  ELSE IF Has(content, "protocolMessage") THEN
    (IF content.protocolMessage.type = 14 /\ ~IsNull(content.protocolMessage.editedMessage)
       THEN extractContent(content.protocolMessage.editedMessage)
       ELSE Result(Empty, "unknown"))
  ELSE IF /\ Has(content, "senderKeyDistributionMessage")
          /\ Field(content, "conversation") = Empty
          /\ ~Has(content, "extendedTextMessage")
    THEN Result(Empty, "unknown")
  ELSE IF Field(content, "conversation") # Empty
    THEN Result(content.conversation, "text")
  ELSE IF Has(content, "extendedTextMessage") /\ Field(content.extendedTextMessage, "text") # Empty
    THEN Result(content.extendedTextMessage.text, "text")
  ELSE IF Has(content, "imageMessage")
    THEN Result(Or(Field(content.imageMessage, "caption"), Str("Photo")), "image")
  ELSE IF Has(content, "videoMessage")
    THEN Result(Or(Field(content.videoMessage, "caption"), Str("Video")), "video")
  ELSE IF Has(content, "audioMessage")
    THEN Result(IF Has(content.audioMessage, "ptt") /\ content.audioMessage.ptt
                  THEN Str("Voice message") ELSE Str("Audio"), "audio")
  ELSE IF Has(content, "documentMessage")
    THEN Result(Or(Field(content.documentMessage, "fileName"), Str("Document")), "document")
  ELSE IF Has(content, "stickerMessage") THEN Result(Str("Sticker"), "sticker")
  ELSE IF Has(content, "contactMessage")
    THEN Result(Or(Field(content.contactMessage, "displayName"), Str("Contact")), "contact")
  ELSE IF Has(content, "contactsArrayMessage")
    THEN Result(<<IF Has(content.contactsArrayMessage, "contacts")
                    THEN Len(content.contactsArrayMessage.contacts) ELSE 0,
                  " contacts">>, "contact")
  ELSE IF Has(content, "locationMessage") THEN Result(Str("Location"), "location")
  ELSE IF Has(content, "liveLocationMessage") THEN Result(Str("Live location"), "location")
  ELSE IF Has(content, "reactionMessage")
    THEN Result(Or(Field(content.reactionMessage, "text"), Str("heart")), "reaction")
  ELSE IF \/ Has(content, "pollCreationMessage") \/ Has(content, "pollCreationMessageV2")
          \/ Has(content, "pollCreationMessageV3")
    THEN LET poll == IF Has(content, "pollCreationMessage") THEN content.pollCreationMessage
                     ELSE IF Has(content, "pollCreationMessageV2") THEN content.pollCreationMessageV2
                     ELSE content.pollCreationMessageV3
         IN Result(<<"Poll: ">> \o Or(Field(poll, "name"), Str("Poll")), "text")
  ELSE IF Has(content, "pollUpdateMessage") THEN Result(Str("Poll vote"), "text")
  ELSE IF Has(content, "listMessage")
    THEN Result(Or(Field(content.listMessage, "title"),
                   Or(Field(content.listMessage, "description"), Str("List"))), "text")
  ELSE IF Has(content, "buttonsMessage")
    THEN Result(Or(Field(content.buttonsMessage, "contentText"), Str("Buttons")), "text")
  ELSE IF Has(content, "templateMessage") THEN Result(Str("Template"), "text")
  ELSE IF Has(content, "groupInviteMessage")
    THEN Result(<<"Group invite: ">> \o Or(Field(content.groupInviteMessage, "groupName"), Str("Group")), "text")
  ELSE IF Has(content, "interactiveMessage")
    THEN Result(Or(Field(Sub(content.interactiveMessage, "body"), "text"),
                   Or(Field(Sub(content.interactiveMessage, "header"), "title"),
                      Str("Interactive message"))), "text")
  ELSE IF Has(content, "orderMessage") THEN Result(Str("Order"), "text")
  ELSE IF Has(content, "paymentInviteMessage") THEN Result(Str("Payment"), "text")
  ELSE IF Has(content, "pinInChatMessage") THEN Result(Str("Pinned a message"), "text")
  ELSE IF Has(content, "keepInChatMessage") THEN Result(Str("Kept a message"), "text")
  ELSE Result(Str("[Unsupported message]"), "unknown")

\* Baileys WAMessageStatus -> MessageStatus; -1 stands for null/undefined
mapStatus(status) ==
  CASE status = 0 -> "error"
    [] status = 1 -> "pending"
    [] status = 2 -> "sent"
    [] status = 3 -> "delivered"
    [] status = 4 -> "read"
    [] OTHER -> "sent"

\* ─── Inbound messages ────────────────────────────────────────────────────
\* A WAMessage: remoteJid, participant, pushName are "" (Empty) when not set,
\* id is Empty when null, messageTimestamp (seconds) is 0 when not set, status
\* is -1 when not set.
NoMessage == [id |-> Empty, chatJid |-> Empty, senderJid |-> Empty, senderName |-> Empty,
              body |-> Empty, timestamp |-> 0, isFromMe |-> FALSE, status |-> "none",
              type |-> "none"]

\* parseMessage; NoMessage stands for the null result; now is Date.now()
parseMessage(msg, now) ==
  IF msg.remoteJid = Empty THEN NoMessage
  ELSE
    LET isFromMe  == msg.fromMe
        senderJid == IF isFromMe THEN Str("me") ELSE Or(msg.participant, msg.remoteJid)
        timestamp == IF msg.messageTimestamp # 0 THEN msg.messageTimestamp * 1000 ELSE now
        content   == extractContent(msg.message)
        senderName == IF isFromMe THEN Str("You")
                      ELSE IF msg.pushName # Empty THEN msg.pushName
                      ELSE jidToPhoneNumber(senderJid)
    IN [id |-> IF msg.id # Empty THEN msg.id ELSE <<"msg-", timestamp>>,
        chatJid |-> msg.remoteJid,
        senderJid |-> senderJid,
        senderName |-> senderName,
        body |-> content.body,
        timestamp |-> timestamp,
        isFromMe |-> isFromMe,
        status |-> mapStatus(msg.status),
        type |-> content.type]

\* the conversation upsert derived from a retained message (both handlers)
\* mutant: a message-driven conversation write keeps the stored unread counter
MessageChatKeepUnread(S, parsed) ==
  LET chatJid == parsed.chatJid
      resolvedName == Or(getContactName(S, chatJid),
                         Or(parsed.senderName, jidToPhoneNumber(chatJid)))
  IN Chat(chatJid,
          IF parsed.isFromMe THEN getContactName(S, chatJid) ELSE resolvedName,
          Or(parsed.body, <<"[", parsed.type, "]">>),
          parsed.timestamp,
          IF chatJid \in DOMAIN S.chats THEN S.chats[chatJid].unread_count ELSE 0)

MessageChat(S, parsed) ==
  LET chatJid == parsed.chatJid
      resolvedName == Or(getContactName(S, chatJid),
                         Or(parsed.senderName, jidToPhoneNumber(chatJid)))
  IN Chat(chatJid,
          IF parsed.isFromMe THEN getContactName(S, chatJid) ELSE resolvedName,
          Or(parsed.body, <<"[", parsed.type, "]">>),
          parsed.timestamp,
          0)

\* the contact write for the sender's pushName
PushNameContact(S, msg, parsed, skipBroadcast) ==
  IF ~parsed.isFromMe /\ msg.pushName # Empty
    THEN LET senderJid == Or(msg.participant, msg.remoteJid)
         IN IF senderJid # Empty /\ (~skipBroadcast \/ senderJid # StatusBroadcast)
              THEN upsertContact(S, senderJid, Empty, msg.pushName)
              ELSE S
    ELSE S

\* the hook's listener of the 'message' signal, registered for the selected
\* conversation; emit runs it synchronously
\* mutant: the listener marks the conversation of any message as read
handleMessageAnyChat(S, selected, msg) ==
  IF selected # Empty THEN resetUnreadCount(S, msg.chatJid) ELSE S

handleMessage(S, selected, msg) ==
  IF selected # Empty /\ msg.chatJid = selected THEN resetUnreadCount(S, selected) ELSE S

\* An accumulator A = [store, emitted, notifies, seen, steps, selected] threads a
\* handler's loop: the store, the 'message' signals emitted so far, the number
\* of notifyChatsChanged calls made so far, what a listener finds at each signal
\* (the store and the number of notifyChatsChanged calls made), the calls made so
\* far in program order, and the conversation the hook's listener is registered
\* for.
Acc(S) == [store |-> S, emitted |-> <<>>, notifies |-> 0, seen |-> <<>>, steps |-> <<>>,
           selected |-> selectedJid]

\* the calls of one iteration for a retained message
IterationSteps(parsed) ==
  <<"upsertChat", "upsertMessage">>
    \o (IF ~parsed.isFromMe THEN <<"incrementUnreadCount">> ELSE <<>>)
    \o <<"emit", "notifyChatsChanged">>

\* mutant: the signal is emitted before the rows are written
MessagesUpsertOneEmitFirst(A, msg, now) ==
  LET parsed == parseMessage(msg, now)
      S0 == A.store
  IN IF msg.remoteJid = Empty \/ msg.remoteJid = StatusBroadcast THEN A
     ELSE IF parsed = NoMessage THEN A
     ELSE IF parsed.body = Empty THEN A
     ELSE
       LET S1 == PushNameContact(S0, msg, parsed, TRUE)
           S1e == handleMessage(S1, A.selected, parsed)
           S2 == upsertChat(S1e, MessageChat(S1e, parsed))
           S3 == upsertMessage(S2, parsed)
           S4 == IF ~parsed.isFromMe THEN incrementUnreadCount(S3, parsed.chatJid) ELSE S3
       IN [A EXCEPT !.store = S4,
                    !.emitted = Append(@, parsed),
                    !.notifies = @ + 1,
                    !.seen = Append(@, [store |-> S1, notifies |-> A.notifies]),
                    !.steps = @ \o <<"emit">> \o
                                SelectSeq(IterationSteps(parsed), LAMBDA x : x # "emit")]

\* mutant: a message with an empty body is not skipped
MessagesUpsertOneKeepEmpty(A, msg, now) ==
  LET parsed == parseMessage(msg, now)
      S0 == A.store
  IN IF msg.remoteJid = Empty \/ msg.remoteJid = StatusBroadcast THEN A
     ELSE IF parsed = NoMessage THEN A
     ELSE
       LET S1 == PushNameContact(S0, msg, parsed, TRUE)
           S2 == upsertChat(S1, MessageChat(S1, parsed))
           S3 == upsertMessage(S2, parsed)
           S4 == IF ~parsed.isFromMe THEN incrementUnreadCount(S3, parsed.chatJid) ELSE S3
           S5 == handleMessage(S4, A.selected, parsed)
       IN [A EXCEPT !.store = S5,
                    !.emitted = Append(@, parsed),
                    !.notifies = @ + 1,
                    !.seen = Append(@, [store |-> S4, notifies |-> A.notifies]),
                    !.steps = @ \o IterationSteps(parsed)]

\* mutant: status@broadcast is handled like any conversation
MessagesUpsertOneNoSkip(A, msg, now) ==
  LET parsed == parseMessage(msg, now)
      S0 == A.store
  IN IF msg.remoteJid = Empty THEN A
     ELSE IF parsed = NoMessage THEN A
     ELSE IF parsed.body = Empty THEN A
     ELSE
       LET S1 == PushNameContact(S0, msg, parsed, TRUE)
           S2 == upsertChat(S1, MessageChat(S1, parsed))
           S3 == upsertMessage(S2, parsed)
           S4 == IF ~parsed.isFromMe THEN incrementUnreadCount(S3, parsed.chatJid) ELSE S3
           S5 == handleMessage(S4, A.selected, parsed)
       IN [A EXCEPT !.store = S5,
                    !.emitted = Append(@, parsed),
                    !.notifies = @ + 1,
                    !.seen = Append(@, [store |-> S4, notifies |-> A.notifies]),
                    !.steps = @ \o IterationSteps(parsed)]

\* one iteration of the messages.upsert loop
MessagesUpsertOne(A, msg, now) ==
  LET parsed == parseMessage(msg, now)
      S0 == A.store
  IN IF msg.remoteJid = Empty \/ msg.remoteJid = StatusBroadcast THEN A
     ELSE IF parsed = NoMessage THEN A
     ELSE IF parsed.body = Empty THEN A
     ELSE
       LET S1 == PushNameContact(S0, msg, parsed, TRUE)
           S2 == upsertChat(S1, MessageChat(S1, parsed))
           S3 == upsertMessage(S2, parsed)
           S4 == IF ~parsed.isFromMe THEN incrementUnreadCount(S3, parsed.chatJid) ELSE S3
           S5 == handleMessage(S4, A.selected, parsed)
       IN [A EXCEPT !.store = S5,
                    !.emitted = Append(@, parsed),
                    !.notifies = @ + 1,
                    !.seen = Append(@, [store |-> S4, notifies |-> A.notifies]),
                    !.steps = @ \o IterationSteps(parsed)]

RECURSIVE MessagesUpsertLoop(_, _, _)
MessagesUpsertLoop(A, msgs, now) ==
  IF msgs = <<>> THEN A
  ELSE MessagesUpsertLoop(MessagesUpsertOne(A, Head(msgs), now), Tail(msgs), now)

\* a synced or incremental chat entry: id, name, conversationTimestamp (seconds,
\* 0 when not set), unreadCount (a field the entry may not have)
SyncedChat(c, fallbackName) ==
  Chat(c.id,
       IF fallbackName THEN Or(c.name, jidToPhoneNumber(c.id)) ELSE c.name,
       Empty,
       IF c.conversationTimestamp # 0 THEN c.conversationTimestamp * 1000 ELSE 0,
       IF Has(c, "unreadCount") THEN c.unreadCount ELSE 0)

\* the chat loop of messaging-history.set and of chats.upsert
RECURSIVE ChatsUpsertLoop(_, _)
ChatsUpsertLoop(S, cs) ==
  IF cs = <<>> THEN S
  ELSE LET c == Head(cs) IN
       ChatsUpsertLoop(IF c.id = Empty \/ c.id = StatusBroadcast THEN S
                       ELSE upsertChat(S, SyncedChat(c, TRUE)),
                       Tail(cs))

\* mutant: an entry without unread count keeps the stored counter
RECURSIVE ChatsUpdateLoopKeepUnread(_, _)
ChatsUpdateLoopKeepUnread(S, cs) ==
  IF cs = <<>> THEN S
  ELSE LET c == Head(cs) IN
       ChatsUpdateLoopKeepUnread(
         IF c.id = Empty \/ c.id = StatusBroadcast THEN S
         ELSE LET given == SyncedChat(c, FALSE)
                  kept == IF ~Has(c, "unreadCount") /\ c.id \in DOMAIN S.chats
                            THEN [given EXCEPT !.unreadCount = S.chats[c.id].unread_count]
                            ELSE given
                  S1 == upsertChat(S, kept)
              IN IF c.name # Empty THEN updateChatName(S1, c.id, c.name) ELSE S1,
         Tail(cs))

\* the loop of chats.update
RECURSIVE ChatsUpdateLoop(_, _)
ChatsUpdateLoop(S, cs) ==
  IF cs = <<>> THEN S
  ELSE LET c == Head(cs) IN
       ChatsUpdateLoop(IF c.id = Empty \/ c.id = StatusBroadcast THEN S
                       ELSE LET S1 == upsertChat(S, SyncedChat(c, FALSE))
                            IN IF c.name # Empty THEN updateChatName(S1, c.id, c.name) ELSE S1,
                       Tail(cs))

\* the contact loop of messaging-history.set and contacts.upsert (skipBroadcast)
\* and of contacts.update (no broadcast check)
RECURSIVE ContactsLoop(_, _, _)
ContactsLoop(S, cs, skipBroadcast) ==
  IF cs = <<>> THEN S
  ELSE LET c == Head(cs) IN
       ContactsLoop(IF c.id = Empty \/ (skipBroadcast /\ c.id = StatusBroadcast) THEN S
                    ELSE upsertContact(S, c.id, c.name, c.notify),
                    Tail(cs), skipBroadcast)

\* the message loop of messaging-history.set
RECURSIVE HistoryMessagesLoop(_, _, _)
HistoryMessagesLoop(S, msgs, now) ==
  IF msgs = <<>> THEN S
  ELSE LET msg == Head(msgs)
           parsed == parseMessage(msg, now)
       IN HistoryMessagesLoop(
            IF msg.remoteJid = Empty \/ msg.remoteJid = StatusBroadcast THEN S
            ELSE IF parsed = NoMessage \/ parsed.body = Empty THEN S
            ELSE LET S1 == PushNameContact(S, msg, parsed, FALSE)
                     S2 == upsertChat(S1, MessageChat(S1, parsed))
                 IN upsertMessage(S2, parsed),
            Tail(msgs), now)

\* the messaging-history.set handler on the store
HistorySet(S, h, now) ==
  HistoryMessagesLoop(ContactsLoop(ChatsUpsertLoop(S, h.chats), h.contacts, TRUE),
                      h.messages, now)

\* The writes of the messaging-history.set handler in program order: one step
\* for every entry a loop does not skip, then the call of notifyChatsChanged.
RECURSIVE ChatSteps(_)
ChatSteps(cs) ==
  IF cs = <<>> THEN <<>>
  ELSE LET c == Head(cs) IN
       (IF c.id = Empty \/ c.id = StatusBroadcast THEN <<>>
        ELSE <<[phase |-> "chats", chat |-> c]>>) \o ChatSteps(Tail(cs))

RECURSIVE ContactSteps(_)
ContactSteps(cs) ==
  IF cs = <<>> THEN <<>>
  ELSE LET c == Head(cs) IN
       (IF c.id = Empty \/ c.id = StatusBroadcast THEN <<>>
        ELSE <<[phase |-> "contacts", contact |-> c]>>) \o ContactSteps(Tail(cs))

RECURSIVE MessageSteps(_, _)
MessageSteps(msgs, now) ==
  IF msgs = <<>> THEN <<>>
  ELSE LET msg == Head(msgs)
           parsed == parseMessage(msg, now)
       IN (IF msg.remoteJid = Empty \/ msg.remoteJid = StatusBroadcast THEN <<>>
           ELSE IF parsed = NoMessage \/ parsed.body = Empty THEN <<>>
           ELSE <<[phase |-> "messages", msg |-> msg, parsed |-> parsed]>>)
          \o MessageSteps(Tail(msgs), now)

NotifyStep == [phase |-> "notify"]

\* mutant: the messages are processed first, then the contacts, then the chats
HistoryStepsMessagesFirst(h, now) ==
  MessageSteps(h.messages, now) \o ContactSteps(h.contacts) \o ChatSteps(h.chats)
    \o <<NotifyStep>>

HistorySteps(h, now) ==
  ChatSteps(h.chats) \o ContactSteps(h.contacts) \o MessageSteps(h.messages, now)
    \o <<NotifyStep>>

\* the effect of one step on the store
HistoryStep(S, st) ==
  CASE st.phase = "chats" -> upsertChat(S, SyncedChat(st.chat, TRUE))
    [] st.phase = "contacts" ->
         upsertContact(S, st.contact.id, st.contact.name, st.contact.notify)
    [] st.phase = "messages" ->
         LET S1 == PushNameContact(S, st.msg, st.parsed, FALSE)
             S2 == upsertChat(S1, MessageChat(S1, st.parsed))
         IN upsertMessage(S2, st.parsed)
    [] OTHER -> S

RECURSIVE Replay(_, _)
Replay(S, steps) ==
  IF steps = <<>> THEN S ELSE Replay(HistoryStep(S, Head(steps)), Tail(steps))

NotifyCalls(steps) == Cardinality({i \in 1..Len(steps) : steps[i] = NotifyStep})

\* mutant: the record is built with status pending
SentMessagePending(jid, text, sentId, now) ==
  [id |-> IF sentId # Empty THEN sentId ELSE <<"local-", now>>,
   chatJid |-> jid, senderJid |-> Str("me"), senderName |-> Str("You"),
   body |-> text, timestamp |-> now, isFromMe |-> TRUE,
   status |-> "pending", type |-> "text"]

\* sendMessage after the transport returned sent (sentId = Empty: no key id)
SentMessage(jid, text, sentId, now) ==
  [id |-> IF sentId # Empty THEN sentId ELSE <<"local-", now>>,
   chatJid |-> jid, senderJid |-> Str("me"), senderName |-> Str("You"),
   body |-> text, timestamp |-> now, isFromMe |-> TRUE,
   status |-> "sent", type |-> "text"]

SendStore(S, msg) ==
  upsertChat(upsertMessage(S, msg), Chat(msg.chatJid, Empty, msg.body, msg.timestamp, 0))

\* ─── ConnectionManager ───────────────────────────────────────────────────
\* A connection.update event: connection in {"none","connecting","open","close"},
\* statusCode of lastDisconnect.error in {"loggedOut","other","none"}, qr present or not.
Update(c, code, qr) == [connection |-> c, statusCode |-> code, qr |-> qr]

\* the updates a transport handle in the given phase delivers
UpdatesOf(phase) ==
  IF phase = "connecting"
    THEN {Update("none", "none", TRUE), Update("connecting", "none", FALSE),
          Update("open", "none", FALSE)}
         \cup {Update("close", code, FALSE) : code \in {"loggedOut", "other", "none"}}
  ELSE IF phase = "open"
    THEN {Update("close", code, FALSE) : code \in {"loggedOut", "other", "none"}}
  ELSE {}

\* mutant: the retry guard is off by one (<= instead of <)
connectionUpdateOffByOne(rc, u) ==
  LET retry == u.connection = "close" /\ u.statusCode # "loggedOut" /\ rc <= maxRetries
      rc1   == IF retry THEN rc + 1 ELSE rc
  IN [retryCount |-> IF u.connection = "open" THEN 0 ELSE rc1,
      emits |-> (IF u.qr THEN <<QRReady>> ELSE <<>>)
                \o (IF u.connection = "close"
                      THEN (IF retry THEN <<Connecting>> ELSE <<Disconnected>>) ELSE <<>>)
                \o (IF u.connection = "open" THEN <<Connected>> ELSE <<>>),
      delay |-> IF retry THEN Min(BackoffStepMs * rc1, BackoffCapMs) ELSE -1]

\* mutant: the retry counter is not incremented
connectionUpdateNoIncrement(rc, u) ==
  LET retry == u.connection = "close" /\ u.statusCode # "loggedOut" /\ rc < maxRetries
  IN [retryCount |-> IF u.connection = "open" THEN 0 ELSE rc,
      emits |-> (IF u.qr THEN <<QRReady>> ELSE <<>>)
                \o (IF u.connection = "close"
                      THEN (IF retry THEN <<Connecting>> ELSE <<Disconnected>>) ELSE <<>>)
                \o (IF u.connection = "open" THEN <<Connected>> ELSE <<>>),
      delay |-> IF retry THEN Min(BackoffStepMs * (rc + 1), BackoffCapMs) ELSE -1]

\* mutant: the close reason is not inspected
connectionUpdateAnyReason(rc, u) ==
  LET retry == u.connection = "close" /\ rc < maxRetries
      rc1   == IF retry THEN rc + 1 ELSE rc
  IN [retryCount |-> IF u.connection = "open" THEN 0 ELSE rc1,
      emits |-> (IF u.qr THEN <<QRReady>> ELSE <<>>)
                \o (IF u.connection = "close"
                      THEN (IF retry THEN <<Connecting>> ELSE <<Disconnected>>) ELSE <<>>)
                \o (IF u.connection = "open" THEN <<Connected>> ELSE <<>>),
      delay |-> IF retry THEN Min(BackoffStepMs * rc1, BackoffCapMs) ELSE -1]

\* mutant: a reconnect is scheduled on every close, also when Disconnected is emitted
connectionUpdateKeepsTrying(rc, u) ==
  LET shouldReconnect == u.statusCode # "loggedOut"
      retry == u.connection = "close" /\ shouldReconnect /\ rc < maxRetries
      rc1   == IF retry THEN rc + 1 ELSE rc
  IN [retryCount |-> IF u.connection = "open" THEN 0 ELSE rc1,
      emits |-> (IF u.qr THEN <<QRReady>> ELSE <<>>)
                \o (IF u.connection = "close"
                      THEN (IF retry THEN <<Connecting>> ELSE <<Disconnected>>) ELSE <<>>)
                \o (IF u.connection = "open" THEN <<Connected>> ELSE <<>>),
      delay |-> IF u.connection = "close" THEN Min(BackoffStepMs * rc1, BackoffCapMs) ELSE -1]

\* mutant: the open branch does not reset the retry counter
connectionUpdateNoReset(rc, u) ==
  LET shouldReconnect == u.statusCode # "loggedOut"
      retry == u.connection = "close" /\ shouldReconnect /\ rc < maxRetries
      rc1   == IF retry THEN rc + 1 ELSE rc
  IN [retryCount |-> rc1,
      emits |-> (IF u.qr THEN <<QRReady>> ELSE <<>>)
                \o (IF u.connection = "close"
                      THEN (IF retry THEN <<Connecting>> ELSE <<Disconnected>>) ELSE <<>>)
                \o (IF u.connection = "open" THEN <<Connected>> ELSE <<>>),
      delay |-> IF retry THEN Min(BackoffStepMs * rc1, BackoffCapMs) ELSE -1]

\* mutant: the delay is computed from the counter before its increment
connectionUpdateDelayFirst(rc, u) ==
  LET shouldReconnect == u.statusCode # "loggedOut"
      retry == u.connection = "close" /\ shouldReconnect /\ rc < maxRetries
      rc1   == IF retry THEN rc + 1 ELSE rc
  IN [retryCount |-> IF u.connection = "open" THEN 0 ELSE rc1,
      emits |-> (IF u.qr THEN <<QRReady>> ELSE <<>>)
                \o (IF u.connection = "close"
                      THEN (IF retry THEN <<Connecting>> ELSE <<Disconnected>>) ELSE <<>>)
                \o (IF u.connection = "open" THEN <<Connected>> ELSE <<>>),
      delay |-> IF retry THEN Min(BackoffStepMs * rc, BackoffCapMs) ELSE -1]

\* the connection.update handler on retry counter rc: the new counter, the
\* 'connection-state' values emitted in order, and the delay of the reconnect
\* it schedules (-1: none)
connectionUpdate(rc, u) ==
  LET shouldReconnect == u.statusCode # "loggedOut"
      retry == u.connection = "close" /\ shouldReconnect /\ rc < maxRetries
      rc1   == IF retry THEN rc + 1 ELSE rc
  IN [retryCount |-> IF u.connection = "open" THEN 0 ELSE rc1,
      emits |-> (IF u.qr THEN <<QRReady>> ELSE <<>>)
                \o (IF u.connection = "close"
                      THEN (IF retry THEN <<Connecting>> ELSE <<Disconnected>>) ELSE <<>>)
                \o (IF u.connection = "open" THEN <<Connected>> ELSE <<>>),
      delay |-> IF retry THEN Min(BackoffStepMs * rc1, BackoffCapMs) ELSE -1]

IsRetriedClose(u) == u.connection = "close" /\ u.statusCode # "loggedOut"

\* a connection.update event delivered by the transport handle s
ConnectionUpdate(s, u) ==
  /\ u \in UpdatesOf(sockPhase[s])
  /\ LET r == connectionUpdate(retryCount, u) IN
     /\ r.delay >= 0 => FreeTimerIds(timers) # {}
     /\ retryCount' = r.retryCount
     /\ connState' = IF r.emits = <<>> THEN connState ELSE r.emits[Len(r.emits)]
     /\ timers' = IF r.delay >= 0 THEN SetTimeout(timers, "reconnect", r.delay) ELSE timers
     /\ lastEvent' = [kind |-> "connection.update", update |-> u, emits |-> r.emits,
                      retryBefore |-> retryCount, delay |-> r.delay]
  /\ sockPhase' = [sockPhase EXCEPT ![s] =
                     IF u.connection = "close" THEN "none"
                     ELSE IF u.connection = "open" THEN "open" ELSE @]
  /\ closes' = IF u.connection = "open" THEN 0
               ELSE IF IsRetriedClose(u) THEN Min(closes + 1, MaxCloses) ELSE closes
  /\ reconnects' = IF u.connection = "open" THEN 0
                   ELSE IF Cardinality(Pending(timers')) > Cardinality(Pending(timers))
                     THEN Min(reconnects + 1, MaxCloses) ELSE reconnects
  /\ UNCHANGED <<started, sock, pendingConnects, chatUpdateTimer, burst>>
  /\ UNCHANGED <<chats, contacts, messages>>

\* connect() up to its first await: emit('connection-state', Connecting)
ConnectBegin ==
  /\ connState' = Connecting
  /\ pendingConnects' = pendingConnects + 1

\* the owner of the service calls connect() once
Start ==
  /\ ~started
  /\ started' = TRUE
  /\ ConnectBegin
  /\ lastEvent' = [kind |-> "connect"]
  /\ UNCHANGED <<retryCount, sock, sockPhase, closes, reconnects>>
  /\ UNCHANGED timerVars
  /\ UNCHANGED <<chats, contacts, messages>>

\* connect() after its awaits: makeWASocket and the registration of the handlers
ConnectResume ==
  /\ pendingConnects > 0
  /\ \E s \in SockIds :
       /\ sockPhase[s] = "none" /\ s # sock
       /\ \A t \in SockIds : (sockPhase[t] = "none" /\ t # sock) => s <= t
       /\ sock' = s
       /\ sockPhase' = [sockPhase EXCEPT ![s] = "connecting"]
  /\ pendingConnects' = pendingConnects - 1
  /\ lastEvent' = [kind |-> "socket"]
  /\ UNCHANGED <<started, connState, retryCount, closes, reconnects>>
  /\ UNCHANGED timerVars
  /\ UNCHANGED <<chats, contacts, messages>>

\* disconnect(): if (this.sock) { this.sock.end(undefined); this.sock = null }.
\* Whether end() of a live handle delivers a close update to the registered
\* handler is the transport's choice (emitsClose); when it does, the update has
\* no error, so its status code is not loggedOut, and the handler runs inside
\* end(). A handle that has closed delivers nothing more.
Disconnect(emitsClose) ==
  /\ sock # 0
  /\ IF emitsClose /\ sockPhase[sock] # "none"
       THEN LET u == Update("close", "none", FALSE)
                r == connectionUpdate(retryCount, u)
            IN /\ r.delay >= 0 => FreeTimerIds(timers) # {}
               /\ retryCount' = r.retryCount
               /\ connState' = IF r.emits = <<>> THEN connState ELSE r.emits[Len(r.emits)]
               /\ timers' = IF r.delay >= 0 THEN SetTimeout(timers, "reconnect", r.delay)
                            ELSE timers
               /\ closes' = Min(closes + 1, MaxCloses)
               /\ reconnects' = IF r.delay >= 0 THEN Min(reconnects + 1, MaxCloses)
                                ELSE reconnects
               /\ lastEvent' = [kind |-> "disconnect", closed |-> TRUE, emits |-> r.emits,
                                retryBefore |-> retryCount, delay |-> r.delay]
       ELSE /\ UNCHANGED <<retryCount, connState, timers, closes, reconnects>>
            /\ lastEvent' = [kind |-> "disconnect", closed |-> FALSE, emits |-> <<>>,
                             retryBefore |-> retryCount, delay |-> -1]
  /\ sockPhase' = [sockPhase EXCEPT ![sock] = "none"]
  /\ sock' = 0
  /\ UNCHANGED <<started, pendingConnects, chatUpdateTimer, burst>>
  /\ UNCHANGED <<chats, contacts, messages>>

\* mutant: the reconnect is armed as an interval, the timer stays pending after it fired
ReconnectTimerFireRepeats(i) ==
  /\ i \in Due(timers)
  /\ timers[i].kind = "reconnect"
  /\ timers' = [timers EXCEPT ![i] = [kind |-> "reconnect", rem |-> BackoffStepMs]]
  /\ ConnectBegin
  /\ lastEvent' = [kind |-> "reconnect"]
  /\ UNCHANGED <<started, retryCount, sock, sockPhase, closes, reconnects, chatUpdateTimer, burst>>
  /\ UNCHANGED <<chats, contacts, messages>>

\* the reconnect timer's callback: () => this.connect()
ReconnectTimerFire(i) ==
  /\ i \in Due(timers)
  /\ timers[i].kind = "reconnect"
  /\ timers' = [timers EXCEPT ![i] = NoTimer]
  /\ ConnectBegin
  /\ lastEvent' = [kind |-> "reconnect"]
  /\ UNCHANGED <<started, retryCount, sock, sockPhase, closes, reconnects, chatUpdateTimer, burst>>
  /\ UNCHANGED <<chats, contacts, messages>>

\* ─── Event reconciliation ────────────────────────────────────────────────
Store == [chats |-> chats, contacts |-> contacts, messages |-> messages]

Stored(S) ==
  /\ chats' = S.chats
  /\ contacts' = S.contacts
  /\ messages' = S.messages

\* inbound events are delivered by a transport handle with an established session
Delivering == \E s \in SockIds : sockPhase[s] = "open"

\* messages.upsert
MessagesUpsert(msgs, now) ==
  /\ Delivering
  /\ LET A == MessagesUpsertLoop(Acc(Store), msgs, now) IN
     /\ CanNotify(A.notifies)
     /\ Stored(A.store)
     /\ Notified(A.notifies)
     /\ lastEvent' = [kind |-> "messages.upsert", input |-> msgs, emitted |-> A.emitted,
                      seen |-> A.seen, steps |-> A.steps,
                      prevStatus |-> [i \in 1..Len(A.emitted) |->
                                        IF A.emitted[i].id \in DOMAIN messages
                                          THEN messages[A.emitted[i].id].status
                                          ELSE "absent"]]
  /\ UNCHANGED connVars

\* messaging-history.set
MessagingHistorySet(h, now) ==
  /\ Delivering
  /\ LET steps == HistorySteps(h, now) IN
     /\ CanNotify(NotifyCalls(steps))
     /\ Stored(HistorySet(Store, h, now))
     /\ Notified(NotifyCalls(steps))
     /\ lastEvent' = [kind |-> "messaging-history.set", input |-> h, now |-> now,
                      steps |-> steps, before |-> chats]
  /\ UNCHANGED connVars

\* chats.upsert
ChatsUpsert(cs) ==
  /\ Delivering
  /\ CanNotify(1)
  /\ Stored(ChatsUpsertLoop(Store, cs))
  /\ Notified(1)
  /\ lastEvent' = [kind |-> "chats.upsert", input |-> cs,
                   before |-> chats]
  /\ UNCHANGED connVars

\* chats.update
ChatsUpdate(cs) ==
  /\ Delivering
  /\ CanNotify(1)
  /\ Stored(ChatsUpdateLoop(Store, cs))
  /\ Notified(1)
  /\ lastEvent' = [kind |-> "chats.update", input |-> cs,
                   before |-> chats]
  /\ UNCHANGED connVars

\* contacts.upsert
ContactsUpsert(cs) ==
  /\ Delivering
  /\ CanNotify(1)
  /\ Stored(ContactsLoop(Store, cs, TRUE))
  /\ Notified(1)
  /\ lastEvent' = [kind |-> "contacts.upsert", input |-> cs]
  /\ UNCHANGED connVars

\* mutant: notifyChatsChanged is called only when the event has entries
ContactsUpdateNotifyIfAny(cs) ==
  /\ Delivering
  /\ CanNotify(1)
  /\ Stored(ContactsLoop(Store, cs, FALSE))
  /\ Notified(IF cs = <<>> THEN 0 ELSE 1)
  /\ lastEvent' = [kind |-> "contacts.update", input |-> cs]
  /\ UNCHANGED connVars

\* contacts.update
ContactsUpdate(cs) ==
  /\ Delivering
  /\ CanNotify(1)
  /\ Stored(ContactsLoop(Store, cs, FALSE))
  /\ Notified(1)
  /\ lastEvent' = [kind |-> "contacts.update", input |-> cs]
  /\ UNCHANGED connVars

\* mutant: the record is stored before the transport is called, so a failed
\* send leaves it in the store
SendMessageOptimistic(jid, text, outcome, sentId, now) ==
  /\ outcome = "sent" => (sock # 0 /\ sockPhase[sock] = "open")
  /\ LET msg == SentMessage(jid, text, sentId, now) IN
     /\ Stored(SendStore(Store, msg))
     /\ lastEvent' = [kind |-> "sendMessage", jid |-> jid, text |-> text,
                      outcome |-> IF sock = 0 THEN "no socket" ELSE outcome,
                      created |-> jid \notin DOMAIN chats,
                      result |-> IF sock = 0 \/ outcome # "sent" THEN NoMessage ELSE msg]
  /\ UNCHANGED connVars
  /\ UNCHANGED timerVars

\* sendMessage(jid, text): outcome is what the transport does with the call,
\* "throws", "nothing" (a falsy result) or "sent" (with key id sentId)
SendMessage(jid, text, outcome, sentId, now) ==
  /\ outcome = "sent" => (sock # 0 /\ sockPhase[sock] = "open")
  /\ IF sock = 0 \/ outcome # "sent"
       THEN /\ UNCHANGED storeVars
            /\ lastEvent' = [kind |-> "sendMessage", jid |-> jid, text |-> text,
                             outcome |-> IF sock = 0 THEN "no socket" ELSE outcome,
                             created |-> FALSE, result |-> NoMessage]
       ELSE LET msg == SentMessage(jid, text, sentId, now) IN
            /\ Stored(SendStore(Store, msg))
            /\ lastEvent' = [kind |-> "sendMessage", jid |-> jid, text |-> text,
                             outcome |-> outcome, created |-> jid \notin DOMAIN chats,
                             result |-> msg]
  /\ UNCHANGED connVars
  /\ UNCHANGED timerVars

\* the UI hook marks a conversation as read: resetUnreadCount(jid)
ResetUnread(jid) ==
  /\ Stored(resetUnreadCount(Store, jid))
  /\ lastEvent' = [kind |-> "resetUnread", jid |-> jid]
  /\ UNCHANGED connVars
  /\ UNCHANGED timerVars

\* getMessages(chatJid, limit): the message window of a conversation
GetMessages(jid, limit) ==
  /\ \E r \in getMessagesForChat(Store, jid, limit) :
       lastEvent' = [kind |-> "getMessages", jid |-> jid, limit |-> limit, result |-> r]
  /\ UNCHANGED storeVars
  /\ UNCHANGED connVars
  /\ UNCHANGED timerVars

\* the hook when a conversation of the list becomes the selected one: the
\* message window is loaded, the conversation is marked as read and the listener
\* of 'message' is registered for it
SelectChat(jid) ==
  /\ jid \in DOMAIN chats
  /\ jid # selectedJid
  /\ selectedJid' = jid
  /\ Stored(resetUnreadCount(Store, jid))
  /\ \E r \in getMessagesForChat(Store, jid, 100) :
       lastEvent' = [kind |-> "select", jid |-> jid, messages |-> r]
  /\ UNCHANGED connVars
  /\ UNCHANGED timerVars

\* ─── Inputs ──────────────────────────────────────────────────────────────
WAMessage(remoteJid, fromMe, participant, pushName, id, ts, status, content) ==
  [remoteJid |-> remoteJid, fromMe |-> fromMe, participant |-> participant,
   pushName |-> pushName, id |-> id, messageTimestamp |-> ts, status |-> status,
   message |-> content]

Text(t)       == [conversation |-> Str(t)]
ProtocolNoise == [protocolMessage |-> [type |-> 0, editedMessage |-> Null]]
Ephemeral(c)  == [ephemeralMessage |-> [message |-> c]]

M1 == Str("m1")
M2 == Str("m2")
NowValues == {1500}

InMessages ==
  { WAMessage(JA, FALSE, Empty, Str("Al"), M1, 1, -1, Text("hi")),
    WAMessage(JA, FALSE, Empty, Str("Al"), M1, 1, 3, Text("hi")),
    WAMessage(JA, FALSE, Empty, Empty, M2, 2, -1, Ephemeral(Text("there"))),
    WAMessage(JA, FALSE, Empty, Str("Al"), M2, 2, -1, ProtocolNoise),
    WAMessage(JA, TRUE, Empty, Empty, M2, 2, 4, Text("there")),
    WAMessage(JA, TRUE, Empty, Empty, Empty, 0, 1, Text("hi")),
    WAMessage(JA, FALSE, Empty, Str("Al"), M2, 1, -1, Text("yo")),
    WAMessage(JG, FALSE, JA, Str("Al"), M1, 2, -1, Text("hi")),
    WAMessage(JG, FALSE, Empty, Empty, M2, 1, 3, Text("there")),
    WAMessage(StatusBroadcast, FALSE, JA, Str("Al"), M1, 2, -1, Text("hi")) }

InBatches ==
  {<<m>> : m \in InMessages}
  \cup {<<WAMessage(JA, FALSE, Empty, Str("Al"), M1, 1, -1, Text("hi")),
          WAMessage(JA, FALSE, Empty, Empty, M2, 2, -1, Text("there"))>>}

InChat(id, name, ts, unread) ==
  [id |-> id, name |-> name, conversationTimestamp |-> ts, unreadCount |-> unread]
\* a chat entry that carries no unread count
NoUnread(id, name, ts) == [id |-> id, name |-> name, conversationTimestamp |-> ts]
InContact(id, name, notify) == [id |-> id, name |-> name, notify |-> notify]

InChatLists ==
  { <<InChat(JA, Str("Alice"), 2, 2)>>,
    <<InChat(JA, Empty, 1, 0)>>,
    <<InChat(JG, Str("Team"), 0, 0)>>,
    <<InChat(StatusBroadcast, Str("Status"), 2, 1)>>,
    <<InChat(JA, Str("Alice"), 1, 0), InChat(JA, Empty, 2, 3)>>,
    <<NoUnread(JA, Str("Alice"), 1)>> }

InChatUpdates ==
  { <<>>,
    <<InChat(JA, Str("Bob"), 0, 1)>>,
    <<InChat(JA, Empty, 2, 0)>>,
    <<NoUnread(JA, Str("Bob"), 0)>>,
    <<InChat(StatusBroadcast, Str("Status"), 2, 1)>> }

\* the chats.update the transport emits when the owner marks a conversation as
\* unread on the phone: unreadCount is -1
MarkedUnread == <<InChat(JA, Empty, 0, -1)>>

\* a bulk sync with all three lists
FullHistory ==
  [chats |-> <<InChat(JA, Str("Alice"), 1, 2), InChat(JG, Str("Team"), 0, 0)>>,
   contacts |-> <<InContact(JA, Str("Ann"), Empty)>>,
   messages |-> <<WAMessage(JA, FALSE, Empty, Str("Al"), M1, 1, -1, Text("hi")),
                  WAMessage(JG, FALSE, JA, Empty, M2, 2, -1, Text("there"))>>]

InContactLists ==
  { <<InContact(JA, Str("Ann"), Empty)>>,
    <<InContact(JA, Empty, Str("Al"))>>,
    <<InContact(JG, Str("Crew"), Str("Gang"))>>,
    <<InContact(StatusBroadcast, Empty, Str("St"))>> }

InContactUpdates ==
  { <<>>,
    <<InContact(JA, Empty, Empty)>>,
    <<InContact(JA, Str("Zed"), Empty)>>,
    <<InContact(StatusBroadcast, Empty, Str("St"))>>,
    <<InContact(Empty, Str("Ann"), Empty)>> }

InHistories ==
  { [chats |-> <<InChat(JA, Str("Alice"), 1, 2)>>, contacts |-> <<>>,
     messages |-> <<WAMessage(JA, FALSE, Empty, Empty, M1, 1, -1, Text("hi"))>>],
    [chats |-> <<InChat(JA, Empty, 2, 0), InChat(JG, Str("Team"), 0, 1)>>,
     contacts |-> <<InContact(JA, Str("Ann"), Empty)>>,
     messages |-> <<>>],
    [chats |-> <<>>, contacts |-> <<InContact(JA, Empty, Str("Al"))>>,
     messages |-> <<WAMessage(JA, TRUE, Empty, Empty, M2, 2, 4, Text("there")),
                    WAMessage(JG, FALSE, JA, Str("Al"), M1, 1, -1, Text("hi"))>>],
    [chats |-> <<InChat(StatusBroadcast, Empty, 1, 0)>>,
     contacts |-> <<InContact(StatusBroadcast, Str("St"), Empty)>>,
     messages |-> <<WAMessage(JA, FALSE, Empty, Str("Al"), M1, 2, -1, ProtocolNoise),
                    WAMessage(StatusBroadcast, FALSE, JA, Str("Al"), M2, 2, -1, Text("hi"))>>] }

InSends ==
  { [jid |-> JA, text |-> Str("ok"), outcome |-> "sent", sentId |-> M2],
    [jid |-> JA, text |-> Str("ok"), outcome |-> "sent", sentId |-> Empty],
    [jid |-> JG, text |-> Str("ok"), outcome |-> "sent", sentId |-> M1],
    [jid |-> JA, text |-> Str("ok"), outcome |-> "throws", sentId |-> Empty],
    [jid |-> JA, text |-> Str("ok"), outcome |-> "nothing", sentId |-> Empty] }

\* a first bulk sync of one named conversation with one received message, and
\* the incremental messages that follow it
SyncHistories ==
  { [chats |-> <<InChat(j, Str("Alice"), cts, unread)>>, contacts |-> <<>>,
     messages |-> <<WAMessage(j, FALSE, IF isGroupJid(j) THEN JA ELSE Empty, Empty,
                              M1, 1, -1, Text("hi"))>>] :
      j \in {JA, JG}, cts \in {0, 1, 2}, unread \in {0, 2} }

FollowingBatches ==
  { <<WAMessage(j, FALSE, IF isGroupJid(j) THEN JA ELSE Empty, pushName,
                M2, 2, -1, Text("there"))>> :
      j \in {JA, JG}, pushName \in {Empty, Str("Al")} }

\* ─── Specifications ──────────────────────────────────────────────────────
\* the service singleton after construction, over an empty database
Constructed ==
  /\ started = FALSE
  /\ connState = Disconnected
  /\ retryCount = 0
  /\ sock = 0
  /\ sockPhase = [s \in SockIds |-> "none"]
  /\ pendingConnects = 0
  /\ timers = [i \in TimerIds |-> NoTimer]
  /\ chatUpdateTimer = 0
  /\ burst = [calls |-> 0, signals |-> 0, since |-> 0]
  /\ chats = <<>>
  /\ contacts = <<>>
  /\ messages = <<>>
  /\ ops = 0
  /\ closes = 0
  /\ reconnects = 0
  /\ lastEvent = [kind |-> "init"]
  /\ selectedJid = Empty

Init ==
  /\ Constructed
  /\ probe = [phase |-> "idle"]

\* the connection lifecycle alone
Idle == UNCHANGED <<ops, probe, selectedJid>>

NextConn ==
  \/ Start /\ Idle
  \/ ConnectResume /\ Idle
  \/ (\E s \in SockIds : \E u \in UpdatesOf(sockPhase[s]) : ConnectionUpdate(s, u)) /\ Idle
  \/ (\E i \in TimerIds : ReconnectTimerFire(i)) /\ Idle
  \/ Tick /\ Idle

SpecConn == Init /\ [][NextConn]_vars

\* the connection lifecycle with an explicit shutdown at any point of it
Shutdown == (\E emitsClose \in BOOLEAN : Disconnect(emitsClose)) /\ Idle

NextShutdown ==
  \/ NextConn
  \/ Shutdown

SpecShutdown == Init /\ [][NextShutdown]_vars

\* a session is established (no close events), then store events
Establish ==
  \/ Start
  \/ ConnectResume
  \/ \E s \in SockIds : ConnectionUpdate(s, Update("open", "none", FALSE))

StoreEvent ==
  \/ \E msgs \in InBatches : \E now \in NowValues : MessagesUpsert(msgs, now)
  \/ \E h \in InHistories : \E now \in NowValues : MessagingHistorySet(h, now)
  \/ \E cs \in InChatLists : ChatsUpsert(cs)
  \/ \E cs \in InChatUpdates : ChatsUpdate(cs)
  \/ \E cs \in InContactLists : ContactsUpsert(cs)
  \/ \E cs \in InContactUpdates : ContactsUpdate(cs)
  \/ \E x \in InSends : \E now \in NowValues :
       SendMessage(x.jid, x.text, x.outcome, x.sentId, now)

NextStore ==
  \/ Establish /\ Idle
  \/ ops < MaxOps /\ StoreEvent /\ ops' = ops + 1 /\ UNCHANGED <<probe, selectedJid>>

SpecStore == Init /\ [][NextStore]_vars

\* bulk syncs, incremental messages and mark-as-read on an established session
InboxEvent ==
  \/ \E h \in SyncHistories : \E now \in NowValues : MessagingHistorySet(h, now)
  \/ \E msgs \in FollowingBatches : \E now \in NowValues : MessagesUpsert(msgs, now)
  \/ \E j \in {JA, JG} : ResetUnread(j)

NextInbox ==
  \/ Establish /\ Idle
  \/ ops < MaxOps /\ InboxEvent /\ ops' = ops + 1 /\ UNCHANGED <<probe, selectedJid>>

SpecInbox == Init /\ [][NextInbox]_vars

\* the connection lifecycle when no attempt ever succeeds: a transport handle
\* reports progress (QR, connecting) and then closes with a cause other than
\* logout. Timers fire, connect() resumes after its awaits and a failing attempt
\* does close: these steps are taken when they stay enabled.
AttemptFails ==
  /\ \E s \in SockIds : \E code \in {"other", "none"} :
       ConnectionUpdate(s, Update("close", code, FALSE))
  /\ Idle

AttemptProgress ==
  /\ \E s \in SockIds :
       \E u \in {Update("none", "none", TRUE), Update("connecting", "none", FALSE)} :
         ConnectionUpdate(s, u)
  /\ Idle

Started   == Start /\ Idle
Resumed   == ConnectResume /\ Idle
Reconnect == (\E i \in TimerIds : ReconnectTimerFire(i)) /\ Idle
TimePasses == Tick /\ Idle

NextFailing ==
  \/ Started
  \/ Resumed
  \/ AttemptProgress
  \/ AttemptFails
  \/ Reconnect
  \/ TimePasses

SpecFailing ==
  /\ Init /\ [][NextFailing]_vars
  /\ WF_vars(Started) /\ WF_vars(Resumed) /\ WF_vars(AttemptFails)
  /\ WF_vars(Reconnect) /\ WF_vars(TimePasses)

\* inbound events on an established session while the clock advances: the
\* n-th event is handled at Date.now() = 1500 + 100 n
Clock == 1500 + 100 * ops

InboundEvent ==
  \/ \E msgs \in InBatches : MessagesUpsert(msgs, Clock)
  \/ \E h \in InHistories \cup {FullHistory} : MessagingHistorySet(h, Clock)
  \/ \E cs \in InChatLists : ChatsUpsert(cs)
  \/ \E cs \in InChatUpdates \cup {MarkedUnread} : ChatsUpdate(cs)
  \/ \E cs \in InContactLists : ContactsUpsert(cs)
  \/ \E cs \in InContactUpdates : ContactsUpdate(cs)

NextInbound ==
  \/ Establish /\ Idle
  \/ ops < MaxOps /\ InboundEvent /\ ops' = ops + 1 /\ UNCHANGED <<probe, selectedJid>>

SpecInbound == Init /\ [][NextInbound]_vars

\* messages arrive and are sent while the clock advances, and the message
\* window of a conversation is read at any point
WindowLimits == {1, 2}

MessageEvent ==
  \/ \E msgs \in InBatches : MessagesUpsert(msgs, Clock)
  \/ \E x \in InSends : SendMessage(x.jid, x.text, x.outcome, x.sentId, Clock)

NextWindow ==
  \/ Establish /\ Idle
  \/ ops < MaxOps /\ MessageEvent /\ ops' = ops + 1 /\ UNCHANGED <<probe, selectedJid>>
  \/ (\E j \in {JA, JG} : \E n \in WindowLimits : GetMessages(j, n)) /\ Idle

SpecWindow == Init /\ [][NextWindow]_vars

\* incremental messages and conversation upserts on an established session while
\* the user moves the selection over the conversations of the list
MixedBatch ==
  <<WAMessage(JA, FALSE, Empty, Str("Al"), M1, 1, -1, Text("hi")),
    WAMessage(JG, FALSE, JA, Str("Al"), M2, 2, -1, Text("there"))>>

HookEvent ==
  \/ \E msgs \in InBatches \cup {MixedBatch} : MessagesUpsert(msgs, Clock)
  \/ \E cs \in InChatLists : ChatsUpsert(cs)

NextHook ==
  \/ Establish /\ Idle
  \/ ops < MaxOps /\ HookEvent /\ ops' = ops + 1 /\ UNCHANGED <<probe, selectedJid>>
  \/ (\E j \in {JA, JG} : SelectChat(j)) /\ UNCHANGED <<ops, probe>>

SpecHook == Init /\ [][NextHook]_vars

\* a bounded number of conversation and contact metadata events on an
\* established session, with time passing: the events pause in the end. Time
\* advances while a timer is pending and the event loop runs a timer that is due.
MetadataEvent ==
  \/ \E cs \in InChatLists : ChatsUpsert(cs)
  \/ \E cs \in InChatUpdates : ChatsUpdate(cs)
  \/ \E cs \in InContactLists : ContactsUpsert(cs)
  \/ \E cs \in InContactUpdates : ContactsUpdate(cs)

Metadata == ops < MaxOps /\ MetadataEvent /\ ops' = ops + 1 /\ UNCHANGED <<probe, selectedJid>>
Established == Establish /\ Idle
DebounceElapsed == (\E i \in TimerIds : NotifyTimerFire(i)) /\ Idle

NextQuiet ==
  \/ Established
  \/ Metadata
  \/ DebounceElapsed
  \/ TimePasses

SpecQuiet ==
  /\ Init /\ [][NextQuiet]_vars
  /\ WF_vars(DebounceElapsed) /\ WF_vars(TimePasses)

\* the connection lifecycle with outbound sends at any point of it
NextSend ==
  \/ NextConn
  \/ /\ ops < MaxOps
     /\ \E x \in InSends : \E now \in NowValues :
          SendMessage(x.jid, x.text, x.outcome, x.sentId, now)
     /\ ops' = ops + 1
     /\ UNCHANGED <<probe, selectedJid>>

SpecSend == Init /\ [][NextSend]_vars

\* the notifier under bursts of events, with time passing: events whose store
\* writes are idempotent, so that bursts of any length occur
EmptyHistory == [chats |-> <<>>, contacts |-> <<>>, messages |-> <<>>]
OwnBatch ==
  <<WAMessage(JA, TRUE, Empty, Empty, M1, 1, 2, Text("hi")),
    WAMessage(JA, TRUE, Empty, Empty, M2, 2, 2, Text("there"))>>

NotifyEvent ==
  \/ \E now \in NowValues : MessagesUpsert(OwnBatch, now)
  \/ \E now \in NowValues : MessagingHistorySet(EmptyHistory, now)
  \/ ChatsUpsert(<<InChat(JG, Str("Team"), 0, 0)>>)
  \/ ChatsUpdate(<<>>)
  \/ ContactsUpsert(<<InContact(JA, Str("Ann"), Empty)>>)
  \/ ContactsUpdate(<<>>)

NextNotify ==
  \/ Establish /\ Idle
  \/ NotifyEvent /\ Idle
  \/ (\E i \in TimerIds : NotifyTimerFire(i)) /\ Idle
  \/ Tick /\ Idle

SpecNotify == Init /\ [][NextNotify]_vars

\* two conversation upserts on one identifier, applied in both orders to the
\* same store: the store is empty or holds the row of one earlier upsert
EmptyStore == [chats |-> <<>>, contacts |-> <<>>, messages |-> <<>>]

PairChats ==
  {c \in {Chat(JA, name, preview, ts, unread) :
            name \in {Empty, Str("Alice")},
            preview \in {Empty, Str("hi"), Str("there")},
            ts \in {0, 1000, 2000, 3000},
            unread \in {0, 2}} :
     c.lastMessage # Empty => c.lastMessageAt > 0}

PairBases == {EmptyStore} \cup {upsertChat(EmptyStore, c) : c \in PairChats}

InitPair ==
  /\ Constructed
  /\ \E base \in PairBases : \E u1, u2 \in PairChats :
       /\ u1.lastMessageAt < u2.lastMessageAt
       /\ probe = [phase |-> "input", base |-> base, u1 |-> u1, u2 |-> u2]

ApplyBothOrders ==
  /\ probe.phase = "input"
  /\ probe' = [phase |-> "done", base |-> probe.base, u1 |-> probe.u1, u2 |-> probe.u2,
               ab |-> upsertChat(upsertChat(probe.base, probe.u1), probe.u2).chats[JA],
               ba |-> upsertChat(upsertChat(probe.base, probe.u2), probe.u1).chats[JA]]
  /\ UNCHANGED <<started, connState, retryCount, sock, sockPhase, pendingConnects,
                 timers, chatUpdateTimer, burst, chats, contacts, messages, ops,
                 closes, reconnects, lastEvent, selectedJid>>

SpecPair == InitPair /\ [][ApplyBothOrders]_vars

\* a contacts.upsert event for a conversation's identifier and a messages.upsert
\* event with one received message of that conversation, handled in both orders
\* from a store that holds the conversation
CommuteBases ==
  {[chats |-> upsertChat(EmptyStore, Chat(JA, name, Empty, ts, unread)).chats,
    contacts |-> cts, messages |-> <<>>] :
     name \in {Str("Alice"), jidToPhoneNumber(JA)}, ts \in {0, 1000}, unread \in {0, 2},
     cts \in {<<>>, upsertContact(EmptyStore, JA, Empty, Str("Al")).contacts}}

CommuteContacts ==
  {<<InContact(JA, Str("Ann"), Empty)>>, <<InContact(JA, Empty, Str("Bob"))>>,
   <<InContact(JA, Str("Ann"), Str("Bob"))>>}

CommuteMessages ==
  {<<WAMessage(JA, FALSE, Empty, pushName, M1, 2, -1, Text("hi"))>> :
     pushName \in {Empty, Str("Al")}}

InitCommute ==
  /\ Constructed
  /\ \E base \in CommuteBases : \E cs \in CommuteContacts : \E msgs \in CommuteMessages :
       probe = [phase |-> "input", base |-> base, contacts |-> cs, messages |-> msgs]

ApplyContactAndMessage ==
  /\ probe.phase = "input"
  /\ \E now \in NowValues :
       LET contactFirst ==
             MessagesUpsertLoop(Acc(ContactsLoop(probe.base, probe.contacts, TRUE)),
                                probe.messages, now).store
           messageFirst ==
             ContactsLoop(MessagesUpsertLoop(Acc(probe.base), probe.messages, now).store,
                          probe.contacts, TRUE)
       IN probe' = [phase |-> "commuted", base |-> probe.base,
                    contacts |-> probe.contacts, messages |-> probe.messages,
                    contactFirst |-> contactFirst, messageFirst |-> messageFirst]
  /\ UNCHANGED <<started, connState, retryCount, sock, sockPhase, pendingConnects,
                 timers, chatUpdateTimer, burst, chats, contacts, messages, ops,
                 closes, reconnects, lastEvent, selectedJid>>

SpecCommute == InitCommute /\ [][ApplyContactAndMessage]_vars

\* extractContent applied to a payload inside a chain of wrapper envelopes
Wrap(w, c) == [x \in {w} |-> [message |-> c]]

RECURSIVE WrapAll(_, _)
WrapAll(ws, c) == IF ws = <<>> THEN c ELSE Wrap(Head(ws), WrapAll(Tail(ws), c))

WrapperChains == UNION {[1..d -> {Wrappers[i] : i \in 1..Len(Wrappers)}] : d \in 0..MaxDepth}

Payloads ==
  { Text("hi"),
    [extendedTextMessage |-> [text |-> Str("yo")]],
    ProtocolNoise,
    [protocolMessage |-> [type |-> 14, editedMessage |-> Null]],
    [protocolMessage |-> [type |-> 0, editedMessage |-> Text("new")]],
    [protocolMessage |-> [type |-> 14, editedMessage |-> Text("new")]],
    [protocolMessage |-> [type |-> 0, editedMessage |-> Null], conversation |-> Str("hi")],
    [senderKeyDistributionMessage |-> [groupId |-> Str("g")]],
    [imageMessage |-> [caption |-> Empty]],
    [imageMessage |-> [caption |-> Str("cap")]] }

InitExtract ==
  /\ Constructed
  /\ \E ws \in WrapperChains : \E p \in Payloads :
       probe = [phase |-> "input", chain |-> ws, payload |-> p, content |-> WrapAll(ws, p)]

ApplyExtract ==
  /\ probe.phase = "input"
  /\ probe' = [phase |-> "extracted", chain |-> probe.chain, payload |-> probe.payload,
               content |-> probe.content, result |-> extractContent(probe.content)]
  /\ UNCHANGED <<started, connState, retryCount, sock, sockPhase, pendingConnects,
                 timers, chatUpdateTimer, burst, chats, contacts, messages, ops,
                 closes, reconnects, lastEvent, selectedJid>>

SpecExtract == InitExtract /\ [][ApplyExtract]_vars

\* extractContent applied to a content that holds a sender-key distribution
\* next to one user-visible kind, bare or inside one wrapper envelope
VisiblePayloads ==
  { Text("hi"),
    [extendedTextMessage |-> [text |-> Str("yo")]],
    [imageMessage |-> [caption |-> Empty]],
    [imageMessage |-> [caption |-> Str("cap")]],
    [videoMessage |-> [caption |-> Empty]],
    [audioMessage |-> [ptt |-> TRUE]],
    [audioMessage |-> [ptt |-> FALSE]],
    [documentMessage |-> [fileName |-> Str("a.pdf")]],
    [stickerMessage |-> [isAnimated |-> FALSE]],
    [contactMessage |-> [displayName |-> Str("Ann")]],
    [locationMessage |-> [degreesLatitude |-> 1]],
    [liveLocationMessage |-> [degreesLatitude |-> 1]],
    [reactionMessage |-> [text |-> Str("ok")]],
    [pollCreationMessage |-> [name |-> Str("Lunch?")]],
    [listMessage |-> [title |-> Str("Menu")]],
    [buttonsMessage |-> [contentText |-> Str("Pick")]],
    [groupInviteMessage |-> [groupName |-> Str("Team")]],
    [interactiveMessage |-> [body |-> [text |-> Str("Tap")]]] }

KeyDistribution == [senderKeyDistributionMessage |-> [groupId |-> Str("g")]]

InitKeyed ==
  /\ Constructed
  /\ \E ws \in {<<>>} \cup {<<Wrappers[i]>> : i \in 1..Len(Wrappers)} :
     \E p \in VisiblePayloads :
       probe = [phase |-> "input", chain |-> ws, payload |-> p,
                content |-> WrapAll(ws, p @@ KeyDistribution)]

ApplyKeyed ==
  /\ probe.phase = "input"
  /\ probe' = [phase |-> "keyed", chain |-> probe.chain, payload |-> probe.payload,
               content |-> probe.content, result |-> extractContent(probe.content),
               alone |-> extractContent(probe.payload)]
  /\ UNCHANGED <<started, connState, retryCount, sock, sockPhase, pendingConnects,
                 timers, chatUpdateTimer, burst, chats, contacts, messages, ops,
                 closes, reconnects, lastEvent, selectedJid>>

SpecKeyed == InitKeyed /\ [][ApplyKeyed]_vars

\* ─── ContentExtractor: properties ────────────────────────────────────────
Extracted == probe.phase = "extracted"
NoEditContent(p) ==
  /\ Has(p, "protocolMessage")
  /\ ~(p.protocolMessage.type = 14 /\ ~IsNull(p.protocolMessage.editedMessage))
PlainText(p) == DOMAIN p = {"conversation"} /\ p.conversation # Empty

\* C15: a protocol envelope without edit content extracts to the empty body; a
\* chain of wrapper envelopes of any depth up to MaxDepth around a payload
\* extracts to what the payload alone extracts to, which for a plain-text payload
\* is exactly its text with type text.
C15_WrappersAreTransparent ==
  Extracted =>
    /\ probe.result = extractContent(probe.payload)
    /\ NoEditContent(probe.payload) => probe.result.body = Empty
    /\ PlainText(probe.payload) => probe.result = Result(probe.payload.conversation, "text")

\* ephemeral -> view-once -> edited -> ephemeral around the text "hi"
C15_Witness ==
  /\ Extracted
  /\ probe.chain = <<"ephemeralMessage", "viewOnceMessage", "editedMessage", "ephemeralMessage">>
  /\ probe.payload = Text("hi")
  /\ probe.result = Result(Str("hi"), "text")

\* ─── Connection lifecycle: properties ────────────────────────────────────
CloseEvent(e)    == e.kind = "connection.update" /\ e.update.connection = "close"
LogoutClose(e)   == CloseEvent(e) /\ e.update.statusCode = "loggedOut"
RetriedClose(e)  == CloseEvent(e) /\ e.update.statusCode # "loggedOut"

\* C1: a close event whose reason is "logged out" signals Disconnected and
\* schedules nothing (no timer, no connect), and leaves the retry counter as it
\* was, whatever the counter and the state before the event.
C1_LogoutDisconnects ==
  [][LogoutClose(lastEvent') =>
       /\ connState' = Disconnected
       /\ lastEvent'.emits = <<Disconnected>>
       /\ timers' = timers
       /\ pendingConnects' = pendingConnects
       /\ retryCount' = retryCount]_vars

C1_Witness ==
  /\ LogoutClose(lastEvent)
  /\ lastEvent.retryBefore = 3
  /\ connState = Disconnected
  /\ Pending(timers) = {}

\* C2 as stated: after the fifth consecutive non-logout close (counter 0 at the
\* start, no open in between) the connection state is Disconnected.
C2_FiveClosesDisconnected ==
  (RetriedClose(lastEvent) /\ closes = 5) => connState = Disconnected

\* C2 amended: the fifth consecutive non-logout close brings the counter to 5,
\* still signals Connecting and schedules the fifth reconnect; the sixth one
\* signals Disconnected and schedules nothing.
C2_SixthCloseDisconnects ==
  RetriedClose(lastEvent) =>
    /\ closes = 5 => /\ retryCount = maxRetries
                     /\ connState = Connecting
                     /\ lastEvent.delay = 5 * BackoffStepMs
                     /\ Pending(timers) # {}
    /\ closes = 6 => /\ retryCount = maxRetries
                     /\ connState = Disconnected
                     /\ lastEvent.delay = -1
                     /\ Pending(timers) = {}

C2_Witness ==
  RetriedClose(lastEvent) /\ closes = 6 /\ connState = Disconnected

\* C3: the retry counter never exceeds 5, at most five reconnects are scheduled
\* between two opens, and a close event that finds the counter at 5 schedules
\* nothing and signals Disconnected.
C3_AtMostFiveRetries ==
  /\ [](retryCount <= maxRetries /\ reconnects <= maxRetries)
  /\ [][(CloseEvent(lastEvent') /\ retryCount = maxRetries) =>
          /\ timers' = timers
          /\ pendingConnects' = pendingConnects
          /\ retryCount' = maxRetries
          /\ connState' = Disconnected]_vars

C3_Witness ==
  /\ RetriedClose(lastEvent)
  /\ lastEvent.retryBefore = maxRetries
  /\ reconnects = maxRetries
  /\ connState = Disconnected

\* C17: once a close event has signalled Disconnected nothing is left that could
\* signal another state or connect again: no reconnect timer is pending, no
\* connect() is in progress and no transport handle is live; every later step
\* leaves the state Disconnected and starts no connection attempt.
C17_DisconnectedIsTerminal ==
  /\ []((started /\ connState = Disconnected) =>
          /\ Pending(timers) = {}
          /\ pendingConnects = 0
          /\ \A s \in SockIds : sockPhase[s] = "none")
  /\ [][(started /\ connState = Disconnected) =>
          /\ connState' = Disconnected
          /\ pendingConnects' = pendingConnects
          /\ sock' = sock
          /\ timers' = timers]_vars

\* logged out during the second retry
C17_Witness ==
  /\ started
  /\ connState = Disconnected
  /\ LogoutClose(lastEvent)
  /\ lastEvent.retryBefore = 2
  /\ sock = 2

ReconnectPending == {i \in Pending(timers) : timers[i].kind = "reconnect"}

OpenEvent(e) == e.kind = "connection.update" /\ e.update.connection = "open"

\* C19: an open event arrives in state Connecting or AwaitingPairing, signals
\* Connected and sets the retry counter to zero; the counter is zero as long as
\* the state is Connected, and the k-th consecutive close after an open (k <= 5)
\* is retried with the counter at k.
C19_OpenResetsRetryCounter ==
  /\ [](connState = Connected => retryCount = 0)
  /\ [](retryCount = Min(closes, maxRetries))
  /\ [][OpenEvent(lastEvent') =>
          /\ connState \in {Connecting, QRReady}
          /\ connState' = Connected
          /\ retryCount' = 0]_vars
  /\ [][(RetriedClose(lastEvent') /\ closes < 5) =>
          /\ retryCount' = closes + 1
          /\ connState' = Connecting]_vars

\* a session was established by the fifth and last retry
C19_Witness ==
  /\ OpenEvent(lastEvent)
  /\ lastEvent.retryBefore = 5
  /\ retryCount = 0
  /\ closes = 0
  /\ connState = Connected

\* C20: a non-logout close that finds the counter below 5 increments it and
\* schedules one reconnect timer whose delay is min(1000 * new counter, 10000);
\* for the k-th consecutive such close that is 1000 * k, at most 10000.
C20_LinearBackoff ==
  [][(RetriedClose(lastEvent') /\ retryCount < 5) =>
       LET k == closes' IN
       /\ retryCount' = retryCount + 1
       /\ k = retryCount'
       /\ lastEvent'.delay = Min(1000 * retryCount', 10000)
       /\ lastEvent'.delay = 1000 * k
       /\ lastEvent'.delay <= 10000
       /\ \E i \in TimerIds :
            /\ timers[i].kind = "none"
            /\ timers'[i] = [kind |-> "reconnect", rem |-> 1000 * k]
            /\ \A j \in TimerIds \ {i} : timers'[j] = timers[j]]_vars

\* the fifth consecutive retry waits 5000 ms
C20_Witness ==
  /\ RetriedClose(lastEvent)
  /\ closes = 5
  /\ lastEvent.delay = 5000
  /\ \E i \in ReconnectPending : timers[i].rem = 5000

\* C21: when no attempt succeeds and every failure has a cause other than
\* logout, the engine ends in Disconnected for good, having scheduled exactly
\* five reconnects, with nothing left pending.
C21_SettlesInDisconnected ==
  <>[](/\ connState = Disconnected
       /\ reconnects = maxRetries
       /\ Pending(timers) = {}
       /\ pendingConnects = 0)

\* the sixth failure has left the engine Disconnected
C21_Witness ==
  /\ started
  /\ connState = Disconnected
  /\ retryCount = maxRetries
  /\ reconnects = maxRetries
  /\ closes = maxRetries + 1
  /\ \A s \in SockIds : sockPhase[s] = "none"

\* ─── ChangeNotifier: properties ──────────────────────────────────────────
NotifyPending == {i \in Pending(timers) : timers[i].kind = "notify"}

\* C4: a burst of N >= 1 calls (each less than the window after the previous
\* one) yields exactly one 'chats-changed': never more than one, none is
\* outstanding only once it has been emitted, and the signal is emitted when
\* exactly the window has elapsed since the last call of the burst.
C4_OneSignalPerBurst ==
  /\ [](burst.calls >= 1 =>
          /\ burst.signals <= 1
          /\ Cardinality(NotifyPending) <= 1
          /\ NotifyPending = {} <=> burst.signals = 1
          /\ \A i \in NotifyPending : timers[i].rem + burst.since = DebounceMs)
  /\ [][lastEvent'.kind = "chats-changed" =>
          /\ burst.calls >= 1
          /\ burst.since = DebounceMs
          /\ burst.signals = 0 /\ burst'.signals = 1
          /\ burst'.calls = burst.calls]_vars

\* three calls, then the one signal
C4_Witness ==
  /\ lastEvent.kind = "chats-changed"
  /\ burst.calls = 3
  /\ burst.signals = 1
  /\ chatUpdateTimer = 0

\* C5: while less than the window has elapsed since the most recent call no
\* signal of the burst has been emitted, however many calls the burst has; every
\* call re-arms the timer to the full window.
C5_TrailingEdge ==
  /\ []((burst.calls >= 1 /\ burst.since < DebounceMs) =>
          /\ burst.signals = 0
          /\ chatUpdateTimer \in NotifyPending)
  /\ [][(burst'.calls >= 1 /\ burst'.since = 0 /\ lastEvent'.kind # "chats-changed"
         /\ lastEvent'.kind # "tick" /\ burst' # burst)
        => /\ chatUpdateTimer' \in TimerIds
           /\ timers'[chatUpdateTimer'] = [kind |-> "notify", rem |-> DebounceMs]]_vars

\* a stream of three calls is still running and nothing has been signalled
C5_Witness ==
  /\ lastEvent.kind = "tick"
  /\ burst.calls = 3
  /\ burst.signals = 0
  /\ burst.since > 0 /\ burst.since < DebounceMs

\* ─── Inbox scenario: properties ──────────────────────────────────────────
\* the first store event was a bulk sync (of one named conversation and one
\* received message of it, onto the empty store)
FirstSync == ops = 1 /\ lastEvent.kind = "messaging-history.set"
SyncedJid == lastEvent.input.chats[1].id

\* C11 as stated: after the first bulk sync of one conversation named n with one
\* received message of body b, the listing has exactly one row, named n, with
\* preview b; a following incremental received message with body b' at t' > t
\* makes the preview b', the timestamp t' and the unread count 1; a reset of
\* that conversation then makes the unread count 0.
C11_SyncThenMessageThenReset ==
  /\ [](FirstSync =>
          \A L \in getAllChats(Store) :
            /\ Len(L) = 1
            /\ L[1].name = lastEvent.input.chats[1].name
            /\ L[1].lastMessage = extractContent(lastEvent.input.messages[1].message).body)
  /\ [][(FirstSync /\ lastEvent'.kind = "messages.upsert"
         /\ lastEvent'.input[1].remoteJid = SyncedJid)
        => /\ chats'[SyncedJid].last_message = lastEvent'.emitted[1].body
           /\ chats'[SyncedJid].last_message_at = lastEvent'.emitted[1].timestamp
           /\ lastEvent'.emitted[1].timestamp
                > parseMessage(lastEvent.input.messages[1], 0).timestamp
           /\ chats'[SyncedJid].unread_count = 1]_vars
  /\ [][(lastEvent'.kind = "resetUnread" /\ lastEvent'.jid \in DOMAIN chats)
        => chats'[lastEvent'.jid].unread_count = 0]_vars

\* the retained messages of the event e that belong to conversation j and did
\* not originate from the owner
ReceivedIn(e, j) ==
  {i \in 1..Len(e.emitted) : e.emitted[i].chatJid = j /\ ~e.emitted[i].isFromMe}
UnreadOf(tbl, j) == IF j \in DOMAIN tbl THEN tbl[j].unread_count ELSE 0

\* C12 as stated: an incremental message event leaves the unread counter of every
\* conversation it touches higher than before by the number of its retained
\* messages that did not originate from the owner (owner messages add nothing).
C12_EachReceivedMessageAddsOne ==
  [][lastEvent'.kind = "messages.upsert" =>
       \A i \in 1..Len(lastEvent'.emitted) :
         LET j == lastEvent'.emitted[i].chatJid IN
         UnreadOf(chats', j) = UnreadOf(chats, j) + Cardinality(ReceivedIn(lastEvent', j))]_vars

\* ─── Outbound send: properties ───────────────────────────────────────────
SentTo(e) == e.kind = "sendMessage" /\ e.outcome = "sent"
MessagesOf(tbl, j) == {m \in DOMAIN tbl : tbl[m].chat_jid = j}

\* C13: a successful send of text x to a destination without a conversation row
\* creates the row with preview x, and the conversation then holds exactly one
\* message: the returned record, with body x, origin owner and status sent.
C13_SendCreatesConversation ==
  [][(SentTo(lastEvent') /\ lastEvent'.jid \notin DOMAIN chats) =>
       LET e == lastEvent'
           r == e.result
       IN /\ e.jid \in DOMAIN chats'
          /\ chats'[e.jid].last_message = e.text
          /\ chats'[e.jid].last_message_at = r.timestamp
          /\ r.chatJid = e.jid /\ r.body = e.text /\ r.isFromMe /\ r.status = "sent"
          /\ MessagesOf(messages', e.jid) = {r.id}
          /\ messages'[r.id] = MessageRow(r)
          /\ contacts' = contacts]_vars

\* a send to the group, which had no row, created it
C13_Witness ==
  /\ SentTo(lastEvent)
  /\ lastEvent.created
  /\ lastEvent.jid = JG
  /\ chats[JG].last_message = Str("ok")
  /\ messages[M1].is_from_me = 1 /\ messages[M1].status = "sent"
  /\ messages[M1].chat_jid = JG

\* C14: a send that fails (the transport throws or returns nothing, or there is
\* no transport handle) returns the null result and leaves the three tables, the
\* retry counter, the connection state, the transport handle and the timers as
\* they were.
C14_FailedSendChangesNothing ==
  [][(lastEvent'.kind = "sendMessage" /\ lastEvent'.outcome # "sent") =>
       /\ lastEvent'.result = NoMessage
       /\ chats' = chats /\ contacts' = contacts /\ messages' = messages
       /\ retryCount' = retryCount /\ connState' = connState
       /\ sock' = sock /\ sockPhase' = sockPhase /\ pendingConnects' = pendingConnects
       /\ timers' = timers /\ chatUpdateTimer' = chatUpdateTimer]_vars

\* a send failed during a retry, after an earlier send had been stored
C14_Witness ==
  /\ lastEvent.kind = "sendMessage"
  /\ lastEvent.outcome = "throws"
  /\ retryCount = 2
  /\ connState = Connecting
  /\ M2 \in DOMAIN messages
  /\ JA \in DOMAIN chats

\* the same with no transport handle at all
C14_WitnessNoSocket ==
  /\ lastEvent.kind = "sendMessage"
  /\ lastEvent.outcome = "no socket"

\* ─── Empty bodies: properties ────────────────────────────────────────────
\* an inbound message the handlers retain: it names a conversation other than
\* the broadcast one and its extracted body is not empty
Retained(msg) ==
  /\ msg.remoteJid # Empty /\ msg.remoteJid # StatusBroadcast
  /\ extractContent(msg.message).body # Empty
NoneRetained(msgs) == \A i \in 1..Len(msgs) : ~Retained(msgs[i])
IdsOf(entries) == {entries[i].id : i \in 1..Len(entries)}

\* C16: exactly the retained messages of an incremental event are signalled and
\* none of them has an empty body; an incremental event without retained
\* messages leaves the three tables as they were; a bulk sync without retained
\* messages leaves the messages as they were and creates or changes only the
\* conversations and contacts of its own conversation and contact lists; no
\* stored message ever has an empty body.
C16_EmptyBodyWritesNothing ==
  /\ [](\A m \in DOMAIN messages : messages[m].body # Empty)
  /\ [][LET e == lastEvent' IN
        /\ e.kind = "messages.upsert" =>
             /\ \A i \in 1..Len(e.emitted) : e.emitted[i].body # Empty
             /\ Len(e.emitted) = Cardinality({i \in 1..Len(e.input) : Retained(e.input[i])})
             /\ NoneRetained(e.input) =>
                  chats' = chats /\ contacts' = contacts /\ messages' = messages
        /\ (e.kind = "messaging-history.set" /\ NoneRetained(e.input.messages)) =>
             /\ messages' = messages
             /\ \A j \in DOMAIN chats' :
                  (j \notin DOMAIN chats \/ chats'[j] # chats[j]) => j \in IdsOf(e.input.chats)
             /\ \A j \in DOMAIN contacts' :
                  (j \notin DOMAIN contacts \/ contacts'[j] # contacts[j])
                    => j \in IdsOf(e.input.contacts)]_vars

\* protocol noise carrying a display name arrived on an empty store
C16_Witness ==
  /\ lastEvent.kind = "messages.upsert"
  /\ Len(lastEvent.input) = 1
  /\ lastEvent.input[1].message = ProtocolNoise
  /\ lastEvent.input[1].pushName = Str("Al")
  /\ lastEvent.emitted = <<>>
  /\ chats = <<>> /\ contacts = <<>> /\ messages = <<>>

\* ─── Display name: properties ────────────────────────────────────────────
\* the first non-empty of the four name sources, in priority order
FirstNonEmpty(addressbook, notify, stored, fallback) ==
  Or(addressbook, Or(notify, Or(stored, fallback)))

StoredName(tbl, j) == IF j \in DOMAIN tbl THEN tbl[j].name ELSE Empty
ContactField(tbl, j, f) == IF j \in DOMAIN tbl THEN tbl[j][f] ELSE Empty

\* C23 as stated: the name a received message's handling produces for its
\* conversation is the first non-empty of the conversation's addressbook name,
\* its notify name, the name stored for the conversation and the phone-number
\* fallback of its identifier.
C23_NameFollowsPriority ==
  [][(/\ lastEvent'.kind = "messages.upsert"
      /\ Len(lastEvent'.input) = 1
      /\ Len(lastEvent'.emitted) = 1
      /\ ~lastEvent'.emitted[1].isFromMe)
     => LET j == lastEvent'.emitted[1].chatJid
        IN chats'[j].name = FirstNonEmpty(ContactField(contacts', j, "name"),
                                          ContactField(contacts', j, "notify"),
                                          StoredName(chats, j),
                                          jidToPhoneNumber(j))]_vars

\* ─── Message ownership: properties ───────────────────────────────────────
ChatsWritten(e) == {e.emitted[i].chatJid : i \in 1..Len(e.emitted)}

\* C24 as stated: a messages.upsert event leaves the set of messages of every
\* conversation none of its messages belongs to as it was, whatever ids the
\* event's messages carry.
C24_OtherConversationsKeepTheirMessages ==
  [][lastEvent'.kind = "messages.upsert"
     => \A a \in {messages[id].chat_jid : id \in DOMAIN messages} \ ChatsWritten(lastEvent') :
          {id \in DOMAIN messages' : messages'[id].chat_jid = a}
            = {id \in DOMAIN messages : messages[id].chat_jid = a}]_vars

\* ─── Unread counter: properties ──────────────────────────────────────────
\* C25 as stated: every conversation's unread counter is non-negative in every
\* reachable state of the store.
C25_UnreadNeverNegative ==
  \A j \in DOMAIN chats : chats[j].unread_count >= 0

\* ─── Preview and timestamp: properties ───────────────────────────────────
Pair(preview, at) == <<preview, at>>
PairOf(row) == Pair(row.last_message, row.last_message_at)

\* the (preview, timestamp) pairs of the writes an event makes to conversation j
MessagePairs(ms, j) ==
  {Pair(Or(m.body, <<"[", m.type, "]">>), m.timestamp) :
     m \in {x \in ms : x.chatJid = j /\ x.body # Empty}}

ChatPairs(cs, j) ==
  {Pair(Empty, cs[i].conversationTimestamp * 1000) : i \in {k \in 1..Len(cs) : cs[k].id = j}}

PairsWritten(e, j) ==
  CASE e.kind = "messages.upsert" ->
         MessagePairs({e.emitted[i] : i \in 1..Len(e.emitted)}, j)
    [] e.kind = "messaging-history.set" ->
         ChatPairs(e.input.chats, j)
           \cup MessagePairs({parseMessage(e.input.messages[i], e.now) :
                                i \in 1..Len(e.input.messages)}, j)
    [] e.kind \in {"chats.upsert", "chats.update"} -> ChatPairs(e.input, j)
    [] e.kind = "sendMessage" ->
         IF e.outcome = "sent" /\ e.jid = j
           THEN {Pair(e.text, e.result.timestamp)} ELSE {}
    [] OTHER -> {}

\* C26: after every event, each conversation's (preview, timestamp) pair is the
\* pair it had before the event or the pair of one single write the event made to
\* that conversation; so the stored pair always stems from one write.
C26_PairStemsFromOneWrite ==
  [][\A j \in DOMAIN chats' :
       \/ j \in DOMAIN chats /\ PairOf(chats'[j]) = PairOf(chats[j])
       \/ PairOf(chats'[j]) \in PairsWritten(lastEvent', j)]_vars

\* a write with an older timestamp and another preview arrived, and the stored
\* pair is still the newer write's
C26_Witness ==
  /\ lastEvent.kind = "messages.upsert"
  /\ Len(lastEvent.emitted) = 1
  /\ LET m == lastEvent.emitted[1] IN
     /\ m.chatJid \in DOMAIN chats
     /\ chats[m.chatJid].last_message_at > m.timestamp
     /\ chats[m.chatJid].last_message # Empty
     /\ chats[m.chatJid].last_message # m.body

\* ─── Message window: properties ──────────────────────────────────────────
Listed(r) == {r[i].id : i \in 1..Len(r)}

\* C27: the window read for conversation c with limit N holds only messages of
\* c, each once and as stored; it holds N of them, or all when c has fewer; no
\* message of c left out is newer than one in the window; the window is in
\* ascending timestamp order.
C27_WindowIsTheMostRecentAscending ==
  lastEvent.kind = "getMessages" =>
    LET r == lastEvent.result
        c == lastEvent.jid
        own == MessagesOf(messages, c)
    IN /\ \A i \in 1..Len(r) : r[i].id \in own /\ r[i] = MessageOf(Store, r[i].id)
       /\ \A i, j \in 1..Len(r) : i # j => r[i].id # r[j].id
       /\ Len(r) = Min(lastEvent.limit, Cardinality(own))
       /\ \A e \in own \ Listed(r) : \A i \in 1..Len(r) :
            messages[e].timestamp <= r[i].timestamp
       /\ \A i, j \in 1..Len(r) : i < j => r[i].timestamp <= r[j].timestamp

\* a window of two out of three messages, the oldest being left out
C27_Witness ==
  /\ lastEvent.kind = "getMessages"
  /\ lastEvent.limit = 2
  /\ Len(lastEvent.result) = 2
  /\ lastEvent.result[1].timestamp < lastEvent.result[2].timestamp
  /\ Cardinality(MessagesOf(messages, lastEvent.jid)) = 3
  /\ \E e \in MessagesOf(messages, lastEvent.jid) \ Listed(lastEvent.result) :
       messages[e].timestamp < lastEvent.result[1].timestamp

\* ─── Bulk sync order: properties ─────────────────────────────────────────
PhaseRank(st) ==
  CASE st.phase = "chats" -> 1 [] st.phase = "contacts" -> 2
    [] st.phase = "messages" -> 3 [] OTHER -> 4

StepsOf(steps, phase) == {i \in 1..Len(steps) : steps[i].phase = phase}

\* C28: in the handling of one bulk sync, every conversation write of the chat
\* list precedes every contact write of the contact list, those precede every
\* message, notifyChatsChanged is called once and last; the writes are those of
\* the entries not skipped, and made in this order they give the store the
\* handler leaves.
C28_ChatsThenContactsThenMessages ==
  [][lastEvent'.kind = "messaging-history.set"
     => LET steps == lastEvent'.steps
            h == lastEvent'.input
        IN /\ \A i, j \in 1..Len(steps) :
                PhaseRank(steps[i]) < PhaseRank(steps[j]) => i < j
           /\ StepsOf(steps, "notify") = {Len(steps)}
           /\ Cardinality(StepsOf(steps, "chats"))
                = Cardinality({i \in 1..Len(h.chats) :
                                 h.chats[i].id \notin {Empty, StatusBroadcast}})
           /\ Cardinality(StepsOf(steps, "contacts"))
                = Cardinality({i \in 1..Len(h.contacts) :
                                 h.contacts[i].id \notin {Empty, StatusBroadcast}})
           /\ Replay(Store, steps)
                = [chats |-> chats', contacts |-> contacts', messages |-> messages']
           /\ timers'[chatUpdateTimer'] = [kind |-> "notify", rem |-> DebounceMs]]_vars

\* a bulk sync whose three lists each led to a write
C28_Witness ==
  /\ lastEvent.kind = "messaging-history.set"
  /\ StepsOf(lastEvent.steps, "chats") # {}
  /\ StepsOf(lastEvent.steps, "contacts") # {}
  /\ StepsOf(lastEvent.steps, "messages") # {}
  /\ JA \in DOMAIN chats /\ JA \in DOMAIN contacts /\ M1 \in DOMAIN messages

\* ─── Broadcast pseudo-conversation: properties ───────────────────────────
\* C29: whatever inbound events were handled, the chats table has no row for
\* status@broadcast and the messages table has no row of that conversation.
C29_NoBroadcastRows ==
  /\ StatusBroadcast \notin DOMAIN chats
  /\ \A id \in DOMAIN messages : messages[id].chat_jid # StatusBroadcast

\* a message of status@broadcast was delivered after a contact update had stored
\* a contact row under that identifier
C29_Witness ==
  /\ lastEvent.kind = "messages.upsert"
  /\ Len(lastEvent.input) = 1
  /\ lastEvent.input[1].remoteJid = StatusBroadcast
  /\ lastEvent.input[1].message = Text("hi")
  /\ StatusBroadcast \in DOMAIN contacts

\* ─── Own messages: properties ────────────────────────────────────────────
OwnOnly(e) ==
  \/ /\ e.kind = "messages.upsert"
     /\ e.emitted # <<>>
     /\ \A i \in 1..Len(e.emitted) : e.emitted[i].isFromMe
  \/ e.kind = "sendMessage" /\ e.outcome = "sent"

\* C30 as stated: handling messages that all originated from the owner (an
\* incremental own message or a send) leaves the stored name of every
\* conversation that had a row as it was.
C30_OwnMessageKeepsStoredName ==
  [][OwnOnly(lastEvent')
     => \A j \in DOMAIN chats : chats'[j].name = chats[j].name]_vars

\* ─── Incremental message steps: properties ───────────────────────────────
RECURSIVE ClaimedOrder(_)
ClaimedOrder(ms) ==
  IF ms = <<>> THEN <<>>
  ELSE (IF Head(ms).isFromMe
          THEN <<"upsertChat", "upsertMessage", "emit", "notifyChatsChanged">>
          ELSE <<"upsertChat", "upsertMessage", "incrementUnreadCount", "emit",
                 "notifyChatsChanged">>)
       \o ClaimedOrder(Tail(ms))

\* C31: for the retained messages of a messages.upsert event the calls are,
\* message by message, conversation upsert, message upsert, unread increment
\* (received messages only), 'message' signal, notifyChatsChanged; so at each
\* signal the listener finds the message row as emitted, the conversation row
\* with the increment already made, and no notifyChatsChanged call of this
\* message made yet.
C31_RowsStoredBeforeSignal ==
  lastEvent.kind = "messages.upsert" =>
    /\ lastEvent.steps = ClaimedOrder(lastEvent.emitted)
    /\ Len(lastEvent.seen) = Len(lastEvent.emitted)
    /\ \A i \in 1..Len(lastEvent.emitted) :
         LET m == lastEvent.emitted[i]
             at == lastEvent.seen[i]
         IN /\ m.id \in DOMAIN at.store.messages
            /\ at.store.messages[m.id] = MessageRow(m)
            /\ m.chatJid \in DOMAIN at.store.chats
            /\ at.store.chats[m.chatJid].unread_count = (IF m.isFromMe THEN 0 ELSE 1)
            /\ at.notifies = i - 1

\* an event with two retained messages, the first signal being emitted while
\* the second message is not stored yet
C31_Witness ==
  /\ lastEvent.kind = "messages.upsert"
  /\ Len(lastEvent.emitted) = 2
  /\ lastEvent.emitted[2].id \notin DOMAIN lastEvent.seen[1].store.messages
  /\ lastEvent.emitted[2].id \in DOMAIN lastEvent.seen[2].store.messages
  /\ lastEvent.seen[2].notifies = 1

\* ─── Metadata events: properties ─────────────────────────────────────────
MetadataKinds == {"chats.upsert", "chats.update", "contacts.upsert", "contacts.update"}

\* C32: every chats.upsert, chats.update, contacts.upsert and contacts.update
\* event, whatever its entries, leaves the debounce timer armed with the full
\* window; and once such an event has been handled a 'chats-changed' signal is
\* emitted later on.
C32_MetadataEventNotifies ==
  /\ [][lastEvent'.kind \in MetadataKinds
        => /\ chatUpdateTimer' \in TimerIds
           /\ timers'[chatUpdateTimer'] = [kind |-> "notify", rem |-> DebounceMs]]_vars
  /\ (lastEvent.kind \in MetadataKinds) ~> (lastEvent.kind = "chats-changed")

\* the signal fired although the events before it wrote nothing: every entry
\* was skipped or there was none
C32_Witness ==
  /\ lastEvent.kind = "chats-changed"
  /\ ops >= 1
  /\ chats = <<>> /\ contacts = <<>>

\* ─── Contact and message order: properties ───────────────────────────────
\* C33 as stated: for a conversation that exists, handling a contact upsert for
\* its identifier and a received message of it gives the same conversation row
\* and the same contact row in either order.
C33_ContactAndMessageCommute ==
  probe.phase = "commuted" =>
    /\ probe.contactFirst.chats[JA] = probe.messageFirst.chats[JA]
    /\ probe.contactFirst.contacts[JA] = probe.messageFirst.contacts[JA]

\* ─── Explicit shutdown: properties ───────────────────────────────────────
\* C34 as stated: disconnect() leaves the retry counter at zero, schedules no
\* reconnect and starts no connection attempt.
C34_ShutdownDestroysSession ==
  [][lastEvent'.kind = "disconnect"
     => /\ retryCount' = 0
        /\ Pending(timers') \subseteq Pending(timers)
        /\ pendingConnects' = pendingConnects]_vars

\* ─── Key distribution: properties ────────────────────────────────────────
\* C35 as stated: a content that holds a sender-key distribution next to a
\* user-visible kind extracts to what the visible kind extracts to, a non-empty
\* body.
C35_KeyDistributionKeepsContent ==
  probe.phase = "keyed" =>
    /\ probe.result.body # Empty
    /\ probe.result = probe.alone

\* ─── Single reconnect: properties ────────────────────────────────────────
LiveHandles == {s \in SockIds : sockPhase[s] # "none"}

C37_MessageWriteDiscardsUnread ==
  /\ lastEvent.kind = "messaging-history.set" =>
       \A i \in 1..Len(lastEvent.steps) :
         lastEvent.steps[i].phase = "messages" =>
           chats[lastEvent.steps[i].parsed.chatJid].unread_count = 0
  /\ (lastEvent.kind = "sendMessage" /\ lastEvent.outcome = "sent") =>
       chats[lastEvent.jid].unread_count = 0
  /\ lastEvent.kind = "messages.upsert" =>
       \A i \in 1..Len(lastEvent.emitted) :
         lastEvent.seen[i].store.chats[lastEvent.emitted[i].chatJid].unread_count
           = (IF lastEvent.emitted[i].isFromMe THEN 0 ELSE 1)

\* a bulk sync carried count 2 for a conversation and a message of it, and
\* the conversation is stored with 0
C37_Witness ==
  /\ lastEvent.kind = "messaging-history.set"
  /\ \E i \in 1..Len(lastEvent.steps) :
       /\ lastEvent.steps[i].phase = "chats"
       /\ lastEvent.steps[i].chat.unreadCount = 2
       /\ \E k \in 1..Len(lastEvent.steps) :
            /\ lastEvent.steps[k].phase = "messages"
            /\ lastEvent.steps[k].parsed.chatJid = lastEvent.steps[i].chat.id
            /\ chats[lastEvent.steps[k].parsed.chatJid].unread_count = 0

\* ─── Conversation events without unread count: properties ───────────────
\* the entries of a chats.upsert or chats.update event that decide the row of
\* their conversation: not skipped and the last of their identifier
Deciding(cs) ==
  {i \in 1..Len(cs) :
     /\ cs[i].id # Empty /\ cs[i].id # StatusBroadcast
     /\ \A k \in (i + 1)..Len(cs) : cs[k].id # cs[i].id}

\* C38: after a chats.update or chats.upsert event whose entry for a
\* conversation carries no unread count the stored unread counter of the
\* conversation is 0, whatever the counter was and whatever else the
\* entry changes.
C38_NoCountStoresZero ==
  lastEvent.kind \in {"chats.update", "chats.upsert"} =>
    \A i \in Deciding(lastEvent.input) :
      ~Has(lastEvent.input[i], "unreadCount")
        => chats[lastEvent.input[i].id].unread_count = 0

\* a chats.update that only names the conversation clears the counter a
\* received message had raised to 1
C38_Witness ==
  /\ lastEvent.kind = "chats.update"
  /\ lastEvent.input = <<NoUnread(JA, Str("Bob"), 0)>>
  /\ JA \in DOMAIN lastEvent.before
  /\ lastEvent.before[JA].unread_count = 1
  /\ chats[JA].unread_count = 0
  /\ chats[JA].name = Str("Bob")

\* ─── Metadata writes and the preview: properties ────────────────────────
\* the chat entries of an event that are written, and the conversations for
\* which the event writes a retained message
MetadataEntries(e) ==
  IF e.kind = "messaging-history.set" THEN e.input.chats ELSE e.input
MessageChats(e) ==
  IF e.kind = "messaging-history.set"
    THEN {e.steps[i].parsed.chatJid :
            i \in {k \in 1..Len(e.steps) : e.steps[k].phase = "messages"}}
    ELSE {}

\* C39: a bulk-sync chat entry, a chats.upsert entry or a chats.update entry
\* for a stored conversation, the only write of the event to that conversation,
\* replaces the preview by the empty string and stores its timestamp when the
\* timestamp is strictly greater than the stored one, and leaves preview and
\* timestamp as they were when it is less or equal.
C39_MetadataWriteAndPreview ==
  [][lastEvent'.kind \in {"messaging-history.set", "chats.upsert", "chats.update"}
     => LET cs == MetadataEntries(lastEvent') IN
        \A i \in Deciding(cs) :
          LET c == cs[i]
              ts == c.conversationTimestamp * 1000
          IN (/\ c.id \in DOMAIN chats
              /\ \A k \in 1..Len(cs) : k # i => cs[k].id # c.id
              /\ c.id \notin MessageChats(lastEvent'))
             => IF ts > chats[c.id].last_message_at
                  THEN /\ chats'[c.id].last_message = Empty
                       /\ chats'[c.id].last_message_at = ts
                  ELSE /\ chats'[c.id].last_message = chats[c.id].last_message
                       /\ chats'[c.id].last_message_at = chats[c.id].last_message_at]_vars

\* a chats.update with a later timestamp has emptied the preview that a
\* message had stored
C39_Witness ==
  /\ lastEvent.kind = "chats.update"
  /\ lastEvent.input = <<InChat(JA, Empty, 2, 0)>>
  /\ JA \in DOMAIN lastEvent.before
  /\ lastEvent.before[JA].last_message = Str("hi")
  /\ lastEvent.before[JA].last_message_at = 1000
  /\ chats[JA].last_message = Empty
  /\ chats[JA].last_message_at = 2000

\* ─── The hook's listener: properties ─────────────────────────────────────
\* C40: after a messages.upsert event that held a retained message of the
\* selected conversation the stored unread counter of that conversation is 0,
\* the listener having reset it after the increment; and every other
\* conversation row is as the handler's own steps left it, a received message
\* of a conversation that is not selected leaving its counter at 1.
C40_ListenerResetsSelectedOnly ==
  (lastEvent.kind = "messages.upsert" /\ lastEvent.emitted # <<>>) =>
    LET n == Len(lastEvent.emitted) IN
    /\ (\E i \in 1..n : lastEvent.emitted[i].chatJid = selectedJid)
         => chats[selectedJid].unread_count = 0
    /\ \A j \in DOMAIN chats :
         j # selectedJid => chats[j] = lastEvent.seen[n].store.chats[j]
    /\ \A i \in 1..n :
         LET m == lastEvent.emitted[i] IN
         (/\ m.chatJid # selectedJid
          /\ ~m.isFromMe
          /\ \A k \in (i + 1)..n : lastEvent.emitted[k].chatJid # m.chatJid)
           => chats[m.chatJid].unread_count = 1

\* one event brought a received message of the selected conversation and one
\* of another conversation: the first counter was 1 at the signal and is 0,
\* the second is 1
C40_Witness ==
  /\ lastEvent.kind = "messages.upsert"
  /\ lastEvent.input = MixedBatch
  /\ selectedJid = JA
  /\ lastEvent.seen[1].store.chats[JA].unread_count = 1
  /\ chats[JA].unread_count = 0
  /\ chats[JG].unread_count = 1

\* ─── Redelivery: properties ──────────────────────────────────────────────
InboundKinds == {"messages.upsert", "messaging-history.set", "chats.upsert",
                 "chats.update", "contacts.upsert", "contacts.update"}

\* C22 as stated: an inbound event handled right after the same event (same
\* kind, same payload) leaves the three tables as the first handling left them.
C22_SecondDeliveryChangesNothing ==
  [][(lastEvent.kind \in InboundKinds /\ lastEvent'.kind = lastEvent.kind
      /\ lastEvent'.input = lastEvent.input)
     => (chats' = chats /\ contacts' = contacts /\ messages' = messages)]_vars

\* ─── Merge order: properties ─────────────────────────────────────────────
Done == probe.phase = "done"
BaseHas == JA \in DOMAIN probe.base.chats

\* C7 as stated: for t1 < t2, both orders of the two upserts, onto an absent or
\* an existing row, leave timestamp t2 and the preview of the upsert with t2.
C7_EitherOrderYieldsSecond ==
  Done =>
    /\ probe.ab.last_message_at = probe.u2.lastMessageAt
    /\ probe.ab.last_message = probe.u2.lastMessage
    /\ probe.ba.last_message_at = probe.u2.lastMessageAt
    /\ probe.ba.last_message = probe.u2.lastMessage

\* C7 amended: both orders leave the same timestamp and preview; these are t2
\* and the preview of the upsert with t2 when the row was absent or its stored
\* timestamp was below t2, and the stored timestamp and preview otherwise.
C7_OrderIndependentMax ==
  Done =>
    /\ probe.ab.last_message_at = probe.ba.last_message_at
    /\ probe.ab.last_message = probe.ba.last_message
    /\ IF BaseHas /\ probe.base.chats[JA].last_message_at >= probe.u2.lastMessageAt
         THEN /\ probe.ab.last_message_at = probe.base.chats[JA].last_message_at
              /\ probe.ab.last_message = probe.base.chats[JA].last_message
         ELSE /\ probe.ab.last_message_at = probe.u2.lastMessageAt
              /\ probe.ab.last_message = probe.u2.lastMessage

\* onto an existing row with an older timestamp: both orders end with t2's preview
C7_Witness ==
  /\ Done
  /\ BaseHas
  /\ probe.base.chats[JA].last_message_at = 1000
  /\ probe.base.chats[JA].last_message = Str("hi")
  /\ probe.u1.lastMessageAt = 2000 /\ probe.u1.lastMessage = Empty
  /\ probe.u2.lastMessageAt = 3000 /\ probe.u2.lastMessage = Str("there")
  /\ probe.ab.last_message = Str("there") /\ probe.ba.last_message = Str("there")
  /\ probe.ba.last_message_at = 3000

\* ─── Store: properties ───────────────────────────────────────────────────
\* C6: in every step, each stored conversation stays stored, its last-message
\* timestamp does not decrease, and its preview or timestamp changes only when
\* the timestamp becomes strictly greater.
C6_TimestampNeverRegresses ==
  [][\A j \in DOMAIN chats :
       /\ j \in DOMAIN chats'
       /\ chats'[j].last_message_at >= chats[j].last_message_at
       /\ (\/ chats'[j].last_message # chats[j].last_message
           \/ chats'[j].last_message_at # chats[j].last_message_at)
          => chats'[j].last_message_at > chats[j].last_message_at]_vars

\* a later write with a smaller timestamp has been applied to a stored conversation
C6_Witness ==
  /\ lastEvent.kind = "messages.upsert"
  /\ Len(lastEvent.emitted) = 1
  /\ lastEvent.emitted[1].chatJid = JA
  /\ lastEvent.emitted[1].timestamp = 1000
  /\ JA \in DOMAIN chats
  /\ chats[JA].last_message_at = 2000
  /\ chats[JA].last_message = Str("there")

\* the single entry of a contact event, when the event has exactly one entry
\* that the handler does not skip
ContactEntry(e) ==
  /\ e.kind \in {"contacts.upsert", "contacts.update"}
  /\ Len(e.input) = 1
  /\ e.input[1].id # Empty
  /\ (e.kind = "contacts.upsert" => e.input[1].id # StatusBroadcast)

\* C8: in every step each stored contact stays stored and a field changes only
\* to a non-empty value; a contact event with one entry leaves a field as it was
\* when the entry's value for it is empty and stores the entry's value otherwise,
\* each field on its own.
C8_ContactFieldsMergeIndependently ==
  [][/\ \A j \in DOMAIN contacts :
          /\ j \in DOMAIN contacts'
          /\ contacts'[j].name # contacts[j].name => contacts'[j].name # Empty
          /\ contacts'[j].notify # contacts[j].notify => contacts'[j].notify # Empty
     /\ ContactEntry(lastEvent') =>
          LET c == lastEvent'.input[1]
              old == IF c.id \in DOMAIN contacts THEN contacts[c.id]
                     ELSE [name |-> Empty, notify |-> Empty]
          IN /\ c.id \in DOMAIN contacts'
             /\ contacts'[c.id].name = (IF c.name = Empty THEN old.name ELSE c.name)
             /\ contacts'[c.id].notify = (IF c.notify = Empty THEN old.notify ELSE c.notify)]_vars

\* an entry with an empty addressbook name was merged into a contact that keeps its name
C8_Witness ==
  /\ ContactEntry(lastEvent)
  /\ lastEvent.input[1] = InContact(JA, Empty, Str("Al"))
  /\ contacts[JA] = [name |-> Str("Ann"), notify |-> Str("Al")]

\* C9: in every step a stored conversation's name changes only to a non-empty
\* name; an outbound send and a conversation update whose entries carry no name
\* leave every stored name as it was.
C9_NameOnlyReplacedByNonEmpty ==
  [][/\ \A j \in DOMAIN chats :
          j \in DOMAIN chats' /\ (chats'[j].name # chats[j].name => chats'[j].name # Empty)
     /\ (\/ lastEvent'.kind = "sendMessage"
         \/ /\ lastEvent'.kind = "chats.update"
            /\ \A i \in 1..Len(lastEvent'.input) : lastEvent'.input[i].name = Empty)
        => \A j \in DOMAIN chats : chats'[j].name = chats[j].name]_vars

\* a send (empty name) has been merged into a conversation that keeps its name
C9_Witness ==
  /\ lastEvent.kind = "sendMessage"
  /\ lastEvent.outcome = "sent"
  /\ lastEvent.jid = JA
  /\ chats[JA].name = Str("Alice")
  /\ lastEvent.result.id \in DOMAIN messages

RowsOf(tbl, jid) == {id \in DOMAIN tbl : tbl[id].chat_jid = jid}

\* C10: a messages.upsert event whose one retained message has an id already
\* stored in the same conversation replaces that row by the redelivered message
\* (its status included); the ids stored and the number of rows of every
\* conversation are as before.
C10_RedeliveryReplacesInPlace ==
  [][(/\ lastEvent'.kind = "messages.upsert"
      /\ Len(lastEvent'.emitted) = 1
      /\ lastEvent'.emitted[1].id \in DOMAIN messages
      /\ messages[lastEvent'.emitted[1].id].chat_jid = lastEvent'.emitted[1].chatJid)
     => LET m == lastEvent'.emitted[1] IN
        /\ messages'[m.id] = MessageRow(m)
        /\ messages'[m.id].status = mapStatus(lastEvent'.input[1].status)
        /\ DOMAIN messages' = DOMAIN messages
        /\ \A j \in {JA, JG} :
             Cardinality(RowsOf(messages', j)) = Cardinality(RowsOf(messages, j))]_vars

\* m1 was stored as sent and has been redelivered as delivered
C10_Witness ==
  /\ lastEvent.kind = "messages.upsert"
  /\ Len(lastEvent.emitted) = 1
  /\ lastEvent.emitted[1].id = M1
  /\ lastEvent.prevStatus[1] = "sent"
  /\ messages[M1].status = "delivered"
  /\ messages[M1].chat_jid = JA
  /\ Cardinality(RowsOf(messages, JA)) = 1

====
